---- MODULE Spec2Model ----
(***************************************************************************)
(* Asset indexing of the Coordinate chain in blockbook                     *)
(* (db/rocksdb_coordinatetype.go): the per-block controller propagator     *)
(* processAssetsCoordinateType, the asset registry with its redirect       *)
(* chains, the per-address asset balances and the two history indexes.     *)
(*                                                                         *)
(* Byte strings (packed txids, controllers, address descriptors, keys,     *)
(* history values) are sequences of numbers 0..255.  big.Int values are    *)
(* naturals.  The store cfDefault is split by its four key prefixes into   *)
(* the maps ac, aa, gt and ax, each keyed by the bytes after the prefix.   *)
(***************************************************************************)
EXTENDS Integers, Sequences, FiniteSets, TLC

(* ------------------------------------------------------------------ *)
(* Bounds of the model                                                  *)
(* ------------------------------------------------------------------ *)

\* transactions created over a whole run (txids are 1..MaxTxs)
MaxTxs == 3
\* transactions of one block
MaxBlockTxs == 3
\* inputs of one transaction
MaxIns == 2
\* transactions of a run that also makes API reads or has failing store reads
MaxApiTxs == 2
\* identities whose registry entries are written directly
MaxSeeds == 3
\* records concatenated into one history value, and indexes of one record
MaxRecords == 2
MaxIndexes == 2

(* ------------------------------------------------------------------ *)
(* Program constants                                                    *)
(* ------------------------------------------------------------------ *)

TxVersionAssetCreate == 10
TxVersionAssetXfer == 11
TxVersionPreconf == 9
TxVersionPegin == 12
\* an ordinary transaction (any version other than 10 and 11)
TxVersionOrdinary == 2
MaxRedirectHops == 100
DefaultPrecision == 8

VARIABLES
    height,     \* height of the last connected block
    nextTxid,   \* the txid the next transaction gets (txids are unique)
    pending,    \* the block being fetched: its transactions in block order
    utxos,      \* committed live outputs: outpoint -> Utxo (address balances)
    ac,         \* committed "ac:" registry: controller -> AssetRegistryEntry
    aa,         \* committed "aa:" balances: addrDesc \o controller -> AddrAssetBalance
    gt,         \* committed "gt:" history: controller \o descHeight -> bytes
    ax,         \* committed "ax:" history: addrDesc \o controller \o descHeight -> bytes
    last,       \* what the last processAssetsCoordinateType call did and returned
    ret,        \* the last API read: its call and what it returned
    lineage,    \* history: every identity a v10 created -> the first mint of
                \* its chain of re-issuances and the supply that v10 minted
    appeared,   \* history: <<addrDesc, controller>> -> the number of connected
                \* blocks in which the address appeared in an input or a
                \* tagged output of an asset transaction for the controller
    batch       \* the caller's write batch when a block is connected in two
                \* steps: what the propagator staged, the store as it was
                \* before, and whether the batch was written

vars == <<height, nextTxid, pending, utxos, ac, aa, gt, ax, last, ret, lineage,
          appeared, batch>>

(* ------------------------------------------------------------------ *)
(* Inputs: address descriptors and output lists of the transactions     *)
(* ------------------------------------------------------------------ *)

\* two address descriptors of different lengths, one a prefix of the other,
\* and the empty descriptor of an output whose script has no address
AddrA == <<20>>
AddrB == <<20, 7>>
NoAddr == <<>>

Out(a, v) == [AddrDesc |-> a, ValueSat |-> v]

\* the output lists of asset transactions: controller coin and supply at
\* different addresses, a single output, and a first output without address
OutputLists ==
    { <<Out(AddrB, 1), Out(AddrA, 2)>>,
      <<Out(AddrB, 2)>>,
      <<Out(NoAddr, 0), Out(AddrB, 1)>> }

\* an ordinary transaction's outputs are never tagged: one list stands for them
OrdinaryOutputLists == { <<Out(AddrA, 1)>> }

Versions == {TxVersionOrdinary, TxVersionAssetCreate, TxVersionAssetXfer}

\* with the versions of preconfirmation and peg-in transactions
AllVersions == Versions \cup {TxVersionPreconf, TxVersionPegin}

OutputListsFor(ver) ==
    IF ver = TxVersionOrdinary THEN OrdinaryOutputLists ELSE OutputLists

\* output lists for the fill rule of a transfer: three outputs whose values
\* reach the total inside the list, at its end, or not at all
FillOutputLists ==
    { <<Out(AddrB, 1), Out(AddrA, 2)>>,
      <<Out(AddrA, 1), Out(AddrB, 1), Out(AddrA, 1)>>,
      <<Out(AddrA, 1), Out(AddrB, 0), Out(AddrA, 1)>>,
      <<Out(AddrB, 0), Out(AddrA, 0), Out(AddrB, 1)>> }

(* ------------------------------------------------------------------ *)
(* Generic helpers                                                      *)
(* ------------------------------------------------------------------ *)

Range(s) == {s[i] : i \in 1..Len(s)}

RECURSIVE SumOver(_, _)
\* sum of f[x] over the finite set S
SumOver(S, f) ==
    IF S = {} THEN 0
    ELSE LET x == CHOOSE y \in S : TRUE IN f[x] + SumOver(S \ {x}, f)

\* the map m with key k set to v (a put; a later put of a key replaces it)
Put(m, k, v) == [x \in DOMAIN m \cup {k} |-> IF x = k THEN v ELSE m[x]]

\* the map old overwritten by every key of new (the commit of a write batch)
Commit(old, new) ==
    [x \in DOMAIN old \cup DOMAIN new |-> IF x \in DOMAIN new THEN new[x] ELSE old[x]]

EmptyMap == [x \in {} |-> 0]

IsPrefix(p, s) == Len(p) <= Len(s) /\ SubSeq(s, 1, Len(p)) = p

\* s[n:]
Tail0(s, n) == SubSeq(s, n + 1, Len(s))

(* ------------------------------------------------------------------ *)
(* Codec                                                                *)
(* ------------------------------------------------------------------ *)

\* length of a packed txid (chainParser.PackedTxidLen)
PackedTxidLen == 1

\* chainParser.PackTxid / UnpackTxid: the txid as PackedTxidLen bytes
PackTxid(txid) == [i \in 1..PackedTxidLen |-> IF i = PackedTxidLen THEN txid ELSE 0]
UnpackTxid(b) == b[PackedTxidLen]

RECURSIVE VlqBytes(_)
\* the base-128 groups of v, most significant first, all with the high bit set
VlqBytes(v) == IF v = 0 THEN <<>> ELSE Append(VlqBytes(v \div 128), 128 + (v % 128))

\* packVaruint: base-128 groups, most significant first, the high bit set on
\* every byte but the last
packVaruint(v) == Append(VlqBytes(v \div 128), v % 128)

packControllerOutpoint(txid, vout) == PackTxid(txid) \o packVaruint(vout)

RECURSIVE VaruintAt(_, _, _)
\* unpackVaruint of buf from position p with x read so far: <<value, bytes
\* read>>, and <<0, 0>> when the buffer ends inside the number
VaruintAt(buf, p, x) ==
    IF p > Len(buf) THEN <<0, 0>>
    ELSE IF buf[p] >= 128
         THEN LET r == VaruintAt(buf, p + 1, x * 128 + (buf[p] - 128))
              IN IF r[2] = 0 THEN r ELSE <<r[1], r[2] + 1>>
         ELSE <<x * 128 + buf[p], 1>>

unpackVaruint(buf) == VaruintAt(buf, 1, 0)

\* the txid of the empty string, which unpackControllerOutpoint returns for
\* a controller it cannot unpack
EmptyTxid == 0

\* a controller unpacked with the txid bytes read as part of the vout
unpackControllerOutpoint_VoutFromStart(controller) ==
    IF Len(controller) = 0 \/ Len(controller) < PackedTxidLen + 1
    THEN <<EmptyTxid, 0>>
    ELSE <<UnpackTxid(SubSeq(controller, 1, PackedTxidLen)),
           unpackVaruint(controller)[1]>>

\* unpackControllerOutpoint: the first PackedTxidLen bytes are the txid, the
\* rest is the varuint of the vout
unpackControllerOutpoint(controller) ==
    IF Len(controller) = 0 \/ Len(controller) < PackedTxidLen + 1
    THEN <<EmptyTxid, 0>>
    ELSE <<UnpackTxid(SubSeq(controller, 1, PackedTxidLen)),
           unpackVaruint(Tail0(controller, PackedTxidLen))[1]>>

\* the character codes of ':', '0' and 'a'
Colon == 58
Digit0 == 48
LetterA == 97

HexDigit(n) == IF n < 10 THEN Digit0 + n ELSE LetterA + (n - 10)
HexValue(ch) == IF ch >= LetterA THEN ch - LetterA + 10 ELSE ch - Digit0

\* a txid as the string the chain parser gives it: the hex digits of its
\* packed byte
TxidString(txid) == <<HexDigit(txid \div 16), HexDigit(txid % 16)>>

\* the txid a string of hex digits stands for
TxidOfString(str) == HexValue(str[1]) * 16 + HexValue(str[2])

RECURSIVE DigitsLowFirst(_)
\* the first loop of uitoa: the decimal digits of v > 0, lowest first
DigitsLowFirst(v) ==
    IF v = 0 THEN <<>> ELSE <<Digit0 + (v % 10)>> \o DigitsLowFirst(v \div 10)

\* the second loop of uitoa
Reverse(b) == [i \in 1..Len(b) |-> b[Len(b) + 1 - i]]

\* uitoa without its second loop
uitoa_NotReversed(v) == IF v = 0 THEN <<Digit0>> ELSE DigitsLowFirst(v)

uitoa(v) == IF v = 0 THEN <<Digit0>> ELSE Reverse(DigitsLowFirst(v))

\* hex.EncodeToString
HexEncode(b) ==
    [i \in 1..(2 * Len(b)) |->
        IF i % 2 = 1 THEN HexDigit(b[(i + 1) \div 2] \div 16)
        ELSE HexDigit(b[i \div 2] % 16)]

\* FormatControllerOutpoint: "txid:vout"
FormatControllerOutpoint(controller) ==
    IF Len(controller) = 0 THEN <<>>
    ELSE LET u == unpackControllerOutpoint(controller)
         IN IF u[1] = EmptyTxid THEN HexEncode(controller)
            ELSE TxidString(u[1]) \o <<Colon>> \o uitoa(u[2])

RECURSIVE LastColon(_, _)
\* the index (from 0) of the last ':' of s at or before idx, -1 if none
LastColon(s, idx) ==
    IF idx >= 0 /\ s[idx + 1] # Colon THEN LastColon(s, idx - 1) ELSE idx

RECURSIVE ParseDigits(_, _, _)
\* the digits of s from position i on, other characters skipped
ParseDigits(s, i, vout) ==
    IF i > Len(s) THEN vout
    ELSE IF s[i] >= Digit0 /\ s[i] <= Digit0 + 9
         THEN ParseDigits(s, i + 1, vout * 10 + (s[i] - Digit0))
         ELSE ParseDigits(s, i + 1, vout)

\* ParseControllerString: the text before the last ':' is the txid, the
\* digits after it the vout; nil without a ':' after the first character
ParseControllerString(s) ==
    LET idx == LastColon(s, Len(s) - 1)
    IN IF idx <= 0 THEN <<>>
       ELSE packControllerOutpoint(TxidOfString(SubSeq(s, 1, idx)),
                                   ParseDigits(s, idx + 2, 0))

RECURSIVE BigEndianBytes(_)
\* the bytes of v > 0, most significant first, without leading zeros
BigEndianBytes(v) ==
    IF v = 0 THEN <<>> ELSE Append(BigEndianBytes(v \div 256), v % 256)

\* packBigint: the number of bytes, then the bytes; zero is the single byte 0
packBigint(v) == <<Len(BigEndianBytes(v))>> \o BigEndianBytes(v)

RECURSIVE BigEndianValue(_, _, _)
BigEndianValue(buf, p, n) ==
    IF n = 0 THEN 0
    ELSE BigEndianValue(buf, p, n - 1) * 256 + buf[p + n - 1]

\* unpackBigint: <<value, bytes read>>
unpackBigint(buf) == <<BigEndianValue(buf, 2, buf[1]), buf[1] + 1>>

\* a uint32 as its two 16-bit halves, so that the whole range of the type
\* is within the model checker's integers
Words(x) == [hi |-> (x \div 65536) % 65536, lo |-> x % 65536]

\* binary.BigEndian.PutUint32
PutUint32(w) == << w.hi \div 256, w.hi % 256, w.lo \div 256, w.lo % 256 >>

\* binary.BigEndian.Uint32
Uint32(b) == [hi |-> b[1] * 256 + b[2], lo |-> b[3] * 256 + b[4]]

\* an encoding that leaves the height as it is
Not32_Identity(w) == w

\* ^x on a uint32
Not32(w) == [hi |-> 65535 - w.hi, lo |-> 65535 - w.lo]

BigEndian32(x) == PutUint32(Words(x))

\* packDescHeight on the halves of the height
packDescHeightW(w) == PutUint32(Not32(w))

\* unpackDescHeight to the halves of the height
unpackDescHeightW(b) == Not32(Uint32(b))

\* packDescHeight: the big-endian bytes of ^height
packDescHeight(h) == packDescHeightW(Words(h))

unpackDescHeight(b) ==
    LET w == unpackDescHeightW(b) IN w.hi * 65536 + w.lo

RECURSIVE appendVarint32(_, _)
\* appendVarint32: seven bits at a time, least significant first
appendVarint32(buf, uv) ==
    IF uv >= 128
    THEN appendVarint32(Append(buf, 128 + (uv % 128)), uv \div 128)
    ELSE Append(buf, uv)

\* an entry written without its last index marker
LastIndexMarker_Never(i, n) == 0

\* the last index marker: 1 on the last index of the entry
LastIndexMarker(i, n) == IF i = n THEN 1 ELSE 0

RECURSIVE PackIndexes(_, _, _)
PackIndexes(buf, indexes, i) ==
    IF i > Len(indexes) THEN buf
    ELSE LET v == indexes[i] * 2 + LastIndexMarker(i, Len(indexes))
         IN PackIndexes(appendVarint32(buf, v), indexes, i + 1)

\* packAssetTxEntry: btxID, then (index << 1) per index, the last one | 1
packAssetTxEntry(btxID, indexes) == PackIndexes(btxID, indexes, 1)

RECURSIVE Varint32At(_, _, _, _)
\* unpackVarint32 of val from position p: <<value, bytes read>>
Varint32At(val, p, acc, mul) ==
    IF p > Len(val) THEN <<acc, 0>>
    ELSE IF val[p] >= 128
         THEN LET r == Varint32At(val, p + 1, acc + (val[p] - 128) * mul, mul * 128)
              IN <<r[1], r[2] + 1>>
         ELSE <<acc + val[p] * mul, 1>>

unpackVarint32(val) == Varint32At(val, 1, 0, 1)

RECURSIVE ParseIndexes(_, _)
\* the inner loop of the history iterators: indexes up to the one with the
\* low bit set; <<indexes, rest of the value>>
ParseIndexes(val, indexes) ==
    IF Len(val) = 0 THEN <<indexes, val>>
    ELSE LET r == unpackVarint32(val)
             idx == Append(indexes, r[1] \div 2)
             rest == Tail0(val, r[2])
         IN IF r[1] % 2 = 1 THEN <<idx, rest>> ELSE ParseIndexes(rest, idx)

RECURSIVE ParseHistoryValue(_)
\* the outer loop of the history iterators over one value: the sequence of
\* (txid, indexes) the callback is invoked with
ParseHistoryValue(val) ==
    IF Len(val) <= PackedTxidLen THEN <<>>
    ELSE LET tx == UnpackTxid(SubSeq(val, 1, PackedTxidLen))
             r == ParseIndexes(Tail0(val, PackedTxidLen), <<>>)
         IN <<[Txid |-> tx, Indexes |-> r[1]]>> \o ParseHistoryValue(r[2])

makeAddrAssetKey(addrDesc, controller) == addrDesc \o controller
makeGlobalAssetTxKey(controller, h) == controller \o packDescHeight(h)
makeAddrAssetTxKey(addrDesc, controller, h) == addrDesc \o controller \o packDescHeight(h)

(* ------------------------------------------------------------------ *)
(* Registry reads                                                       *)
(* ------------------------------------------------------------------ *)

NormalEntry(ticker, precision, supply, ctrl) ==
    [IsRedirect |-> FALSE, Ticker |-> ticker, Headline |-> <<>>,
     Precision |-> precision, AssetType |-> 0,
     TotalSupply |-> supply, CurrentController |-> ctrl]

\* a redirect written without its flag
RedirectEntry_NotFlagged(ctrl) ==
    [IsRedirect |-> FALSE, Ticker |-> <<>>, Headline |-> <<>>,
     Precision |-> 0, AssetType |-> 0,
     TotalSupply |-> 0, CurrentController |-> ctrl]

RedirectEntry(ctrl) ==
    [IsRedirect |-> TRUE, Ticker |-> <<>>, Headline |-> <<>>,
     Precision |-> 0, AssetType |-> 0,
     TotalSupply |-> 0, CurrentController |-> ctrl]

\* an entry packed with its assetType before its precision
packAssetRegistryEntry_TypeBeforePrecision(e) ==
    IF e.IsRedirect THEN <<1>> \o e.CurrentController
    ELSE <<0>> \o packVaruint(Len(e.Ticker)) \o e.Ticker
             \o packVaruint(Len(e.Headline)) \o e.Headline
             \o packVaruint(e.AssetType) \o packVaruint(e.Precision)
             \o packBigint(e.TotalSupply)
             \o packVaruint(Len(e.CurrentController)) \o e.CurrentController

\* packAssetRegistryEntry: tag 1 and the target for a redirect, tag 0 and
\* the fields in order for a normal entry
packAssetRegistryEntry(e) ==
    IF e.IsRedirect THEN <<1>> \o e.CurrentController
    ELSE <<0>> \o packVaruint(Len(e.Ticker)) \o e.Ticker
             \o packVaruint(Len(e.Headline)) \o e.Headline
             \o packVaruint(e.Precision) \o packVaruint(e.AssetType)
             \o packBigint(e.TotalSupply)
             \o packVaruint(Len(e.CurrentController)) \o e.CurrentController

\* the result of unpackAssetRegistryEntry on an empty value: (nil, nil)
NilEntry == [IsNil |-> TRUE]

\* unpackAssetRegistryEntry: the rest of the value is the target when the
\* tag is 1; otherwise the fields are read one after the other from p
unpackAssetRegistryEntry(data) ==
    IF Len(data) = 0 THEN NilEntry
    ELSE IF data[1] = 1 THEN RedirectEntry(Tail0(data, 1))
    ELSE
    LET p1 == 1
        t == unpackVaruint(Tail0(data, p1))
        p2 == p1 + t[2]
        ticker == SubSeq(data, p2 + 1, p2 + t[1])
        p3 == p2 + t[1]
        h == unpackVaruint(Tail0(data, p3))
        p4 == p3 + h[2]
        headline == SubSeq(data, p4 + 1, p4 + h[1])
        p5 == p4 + h[1]
        precision == unpackVaruint(Tail0(data, p5))
        p6 == p5 + precision[2]
        assetType == unpackVaruint(Tail0(data, p6))
        p7 == p6 + assetType[2]
        supply == unpackBigint(Tail0(data, p7))
        p8 == p7 + supply[2]
        c == unpackVaruint(Tail0(data, p8))
        p9 == p8 + c[2]
    IN [IsRedirect |-> FALSE, Ticker |-> ticker, Headline |-> headline,
        Precision |-> precision[1], AssetType |-> assetType[1],
        TotalSupply |-> supply[1],
        CurrentController |-> SubSeq(data, p9 + 1, p9 + c[1])]

\* GetAssetRegistryEntry: found is FALSE for a missing key (entry == nil);
\* err is TRUE when the store read fails
GetAssetRegistryEntry(reg, controller, fails) ==
    IF fails THEN [found |-> FALSE, err |-> TRUE, entry |-> RedirectEntry(<<>>)]
    ELSE IF controller \notin DOMAIN reg
         THEN [found |-> FALSE, err |-> FALSE, entry |-> RedirectEntry(<<>>)]
         ELSE [found |-> TRUE, err |-> FALSE, entry |-> reg[controller]]

\* the state of the loop of ResolveCurrentController before an iteration
LoopState(current, i) ==
    [ctrl |-> current, reads |-> i, readErr |-> FALSE, done |-> FALSE]

\* a loop body that returns the identity it reads from instead of the
\* current controller of a normal entry
ResolveStep_ReturnsKey(reg, st, failAt) ==
    IF st.done THEN st
    ELSE LET g == GetAssetRegistryEntry(reg, st.ctrl, st.reads = failAt) IN
         IF g.err \/ ~g.found
         THEN [st EXCEPT !.reads = @ + 1, !.readErr = g.err, !.done = TRUE]
         ELSE IF ~g.entry.IsRedirect
              THEN [st EXCEPT !.reads = @ + 1, !.done = TRUE]
         ELSE IF g.entry.CurrentController = st.ctrl
              THEN [st EXCEPT !.reads = @ + 1, !.done = TRUE]
         ELSE [st EXCEPT !.ctrl = g.entry.CurrentController, !.reads = @ + 1]

\* a loop body that stops at the first redirect it has followed
ResolveStep_OneHop(reg, st, failAt) ==
    IF st.done THEN st
    ELSE LET g == GetAssetRegistryEntry(reg, st.ctrl, st.reads = failAt) IN
         IF g.err \/ ~g.found
         THEN [st EXCEPT !.reads = @ + 1, !.readErr = g.err, !.done = TRUE]
         ELSE [st EXCEPT !.ctrl = g.entry.CurrentController, !.reads = @ + 1,
                         !.done = TRUE]

\* one iteration of the loop of ResolveCurrentController: one registry read
\* (failing when it is read number failAt; -1: none), then a return (done)
\* or a step to the redirect's target
ResolveStep(reg, st, failAt) ==
    IF st.done THEN st
    ELSE LET g == GetAssetRegistryEntry(reg, st.ctrl, st.reads = failAt) IN
         IF g.err \/ ~g.found
         THEN [st EXCEPT !.reads = @ + 1, !.readErr = g.err, !.done = TRUE]
         ELSE IF ~g.entry.IsRedirect
              THEN [st EXCEPT !.ctrl = g.entry.CurrentController, !.reads = @ + 1,
                              !.done = TRUE]
         ELSE IF g.entry.CurrentController = st.ctrl
              THEN [st EXCEPT !.reads = @ + 1, !.done = TRUE]
         ELSE [st EXCEPT !.ctrl = g.entry.CurrentController, !.reads = @ + 1]

RECURSIVE ResolveIterate(_, _, _, _)
\* n iterations of the loop from the state st on, taken in two halves
ResolveIterate(reg, st, n, failAt) ==
    IF st.done \/ n <= 0 THEN st
    ELSE IF n = 1 THEN ResolveStep(reg, st, failAt)
    ELSE ResolveIterate(reg, ResolveIterate(reg, st, n \div 2, failAt),
                        n - (n \div 2), failAt)

\* a loop that runs one iteration more than the limit
ResolveLoop_OneMore(reg, current, i, failAt) ==
    ResolveIterate(reg, LoopState(current, i), MaxRedirectHops + 1 - i, failAt)

\* the loop of ResolveCurrentController from iteration i on, up to the hop
\* limit.  The result names the identity, the number of reads made and
\* whether a read failed; the Go function returns the identity alone.
ResolveLoop(reg, current, i, failAt) ==
    ResolveIterate(reg, LoopState(current, i), MaxRedirectHops - i, failAt)

ResolveCurrentController(reg, controller, failAt) ==
    ResolveLoop(reg, controller, 0, failAt).ctrl

(* ------------------------------------------------------------------ *)
(* In-flight structures of one block                                    *)
(* ------------------------------------------------------------------ *)

NilInfo == [Controller |-> <<>>, IsController |-> FALSE]

\* opKey: the key of the in-flight controller map
opKey(txid, vout) == <<txid, vout>>

Utxo(a, v, h) ==
    [AddrDesc |-> a, ValueSat |-> v, Height |-> h,
     Controller |-> <<>>, IsController |-> FALSE]

\* the outpoints a transaction creates
TxOutpoints(tx) == {opKey(tx.Txid, i - 1) : i \in 1..Len(tx.Vout)}

RECURSIVE BlockOutputs(_, _, _)
\* the outputs of the block's transactions, as untagged live UTXOs
BlockOutputs(txs, i, h) ==
    IF i > Len(txs) THEN EmptyMap
    ELSE LET tx == txs[i]
             rest == BlockOutputs(txs, i + 1, h)
         IN [op \in TxOutpoints(tx) \cup DOMAIN rest |->
                IF op \in TxOutpoints(tx)
                THEN Utxo(tx.Vout[op[2] + 1].AddrDesc, tx.Vout[op[2] + 1].ValueSat, h)
                ELSE rest[op]]

BlockInputs(txs) == UNION {Range(txs[i].Vin) : i \in 1..Len(txs)}

\* processAddressesBitcoinType, as far as the propagator reads its result:
\* the balances map holds the committed UTXOs and the block's outputs, and
\* every output a transaction of the block spends is marked spent (Vout = -1)
processAddressesBitcoinType(txs, h) ==
    LET all == Commit(utxos, BlockOutputs(txs, 1, h))
        spent == BlockInputs(txs)
    IN [u |-> all, spent |-> spent \cap DOMAIN all]

\* TxAddresses.Inputs of a transaction: address and value of each spent output
TaInputs(bal, tx) ==
    [i \in 1..Len(tx.Vin) |-> Out(bal.u[tx.Vin[i]].AddrDesc, bal.u[tx.Vin[i]].ValueSat)]

\* a tagging that marks every tagged output as a controller coin
tagUtxoController_AlwaysController(bal, tx, vout, controller, isController) ==
    LET op == opKey(tx.Txid, vout) IN
    IF vout >= Len(tx.Vout) THEN bal
    ELSE IF tx.Vout[vout + 1].AddrDesc = <<>> THEN bal
    ELSE IF op \notin DOMAIN bal.u \/ op \in bal.spent THEN bal
    ELSE [bal EXCEPT !.u[op].Controller = controller,
                     !.u[op].IsController = TRUE]

\* a tagging that stores the flag inverted
tagUtxoController_FlagInverted(bal, tx, vout, controller, isController) ==
    LET op == opKey(tx.Txid, vout) IN
    IF vout >= Len(tx.Vout) THEN bal
    ELSE IF tx.Vout[vout + 1].AddrDesc = <<>> THEN bal
    ELSE IF op \notin DOMAIN bal.u \/ op \in bal.spent THEN bal
    ELSE [bal EXCEPT !.u[op].Controller = controller,
                     !.u[op].IsController = ~isController]

\* a tagging that matches the UTXO by its vout alone, not by its txid
tagUtxoController_AnyTxid(bal, tx, vout, controller, isController) ==
    IF vout >= Len(tx.Vout) THEN bal
    ELSE IF tx.Vout[vout + 1].AddrDesc = <<>> THEN bal
    ELSE [bal EXCEPT !.u =
            [op \in DOMAIN bal.u |->
                IF /\ op \notin bal.spent
                   /\ op[2] = vout
                   /\ bal.u[op].AddrDesc = tx.Vout[vout + 1].AddrDesc
                THEN [bal.u[op] EXCEPT !.Controller = controller,
                                       !.IsController = isController]
                ELSE bal.u[op]]]

\* tagUtxoController: sets Controller and IsController of the live UTXO
\* (btxID, vout) in the balances map; nothing when the output does not exist,
\* has no address or is no longer in the list with that vout (spent)
tagUtxoController(bal, tx, vout, controller, isController) ==
    LET op == opKey(tx.Txid, vout) IN
    IF vout >= Len(tx.Vout) THEN bal
    ELSE IF tx.Vout[vout + 1].AddrDesc = <<>> THEN bal
    ELSE IF op \notin DOMAIN bal.u \/ op \in bal.spent THEN bal
    ELSE [bal EXCEPT !.u[op].Controller = controller,
                     !.u[op].IsController = isController]

\* lookupSpentController: the tag of a spent output as the committed address
\* balance holds it; nil for an output without address, for a failed read,
\* for an output the committed balance does not list and for an untagged one
lookupSpentController(bal, op, fails) ==
    IF op \notin DOMAIN bal.u THEN NilInfo
    ELSE IF bal.u[op].AddrDesc = <<>> THEN NilInfo
    ELSE IF fails THEN NilInfo
    ELSE IF op \notin DOMAIN utxos THEN NilInfo
    ELSE IF utxos[op].Controller = <<>> THEN NilInfo
    ELSE [Controller |-> utxos[op].Controller, IsController |-> utxos[op].IsController]

\* whether lookupSpentController reads the store for this outpoint
LookupReads(bal, op) == op \in DOMAIN bal.u /\ bal.u[op].AddrDesc # <<>>

\* an input pass that never finds an entry in the in-flight map
InputFromMap_Never(st, op) == FALSE

\* ci := ctrlMap[opKey(vin.Txid, vin.Vout)]; ci != nil
InputFromMap(st, op) == op \in DOMAIN st.ctrlMap

\* the controller info of an input: the in-flight map first, then the store
InputController(st, op, f) ==
    IF InputFromMap(st, op) THEN st.ctrlMap[op]
    ELSE lookupSpentController(st.bal, op, "lookup" \in f)

InputReads(st, op) ==
    IF ~InputFromMap(st, op) /\ LookupReads(st.bal, op) THEN {"lookup"} ELSE {}

\* history: how the input op of the transaction tx got its controller
\* info, and the value of the output it spends
InputLogEntry(st, tx, op, ci, value) ==
    [tx |-> tx.Txid, op |-> op, lookedUp |-> ~InputFromMap(st, op), ci |-> ci,
     value |-> value]

\* a scan that takes every tagged input for an old controller
IsOldController_AnyTag(ci) == ci.Controller # <<>>

\* the test of the mint-more scan: ci != nil && ci.IsController
IsOldController(ci) == ci.Controller # <<>> /\ ci.IsController

RECURSIVE FindOldCtrl(_, _, _, _)
\* the mint-more scan of a v10: <<oldCtrl, store reads made>>; the scan stops
\* at the first input that is a controller coin
FindOldCtrl(st, vin, i, f) ==
    IF i > Len(vin) THEN <<<<>>, {}>>
    ELSE LET ci == InputController(st, vin[i], f)
             rd == InputReads(st, vin[i])
         IN IF IsOldController(ci)
            THEN <<ci.Controller, rd>>
            ELSE LET r == FindOldCtrl(st, vin, i + 1, f) IN <<r[1], rd \cup r[2]>>

\* fillAssetMetadataFromTx: ticker, headline and precision of
\* CoinSpecificData, each applied only when present (non-empty, positive),
\* and its assetType
fillAssetMetadataFromTx(tx, entry) ==
    [entry EXCEPT !.Ticker = IF tx.Ticker # <<>> THEN tx.Ticker ELSE @,
                  !.Headline = IF tx.Headline # <<>> THEN tx.Headline ELSE @,
                  !.Precision = IF tx.Precision > 0 THEN tx.Precision ELSE @,
                  !.AssetType = tx.AssetType]

NonEmptyAddrs(outs, ctrl) ==
    {<<outs[i].AddrDesc, ctrl>> : i \in {j \in 1..Len(outs) : outs[j].AddrDesc # <<>>}}

\* the registry entry a v10 stages at its own controller
BuildRegistryEntry(tx, ctrlOut, oldCtrl, f) ==
    LET supply == tx.Vout[2].ValueSat
        entry == NormalEntry(<<>>, DefaultPrecision, 0, ctrlOut)
    IN IF oldCtrl # <<>> /\ oldCtrl # ctrlOut
       THEN LET g == GetAssetRegistryEntry(ac, oldCtrl, "registry" \in f)
            IN IF g.found /\ ~g.entry.IsRedirect
               THEN [entry EXCEPT !.Ticker = g.entry.Ticker,
                                  !.Headline = g.entry.Headline,
                                  !.Precision = g.entry.Precision,
                                  !.AssetType = g.entry.AssetType,
                                  !.TotalSupply = g.entry.TotalSupply + supply]
               ELSE [entry EXCEPT !.TotalSupply = supply]
       ELSE fillAssetMetadataFromTx(tx, [entry EXCEPT !.TotalSupply = supply])

\* a redirect that names an identity no transaction creates
RedirectTarget_Unregistered(oldCtrl, ctrlOut) ==
    packControllerOutpoint(EmptyTxid, 0)

\* a redirect that names the key it is written at
RedirectTarget_OldController(oldCtrl, ctrlOut) == oldCtrl

\* the target of the redirect a mint-more writes at oldCtrl:
\* CurrentController: ctrlOut
RedirectTarget(oldCtrl, ctrlOut) == ctrlOut

\* phase 1 for a v10 that passed the gate
Phase1Create(st, tx, f) ==
    LET ctrlOut == packControllerOutpoint(tx.Txid, 0)
        old == FindOldCtrl(st, tx.Vin, 1, f)
        oldCtrl == old[1]
        bal1 == tagUtxoController(st.bal, tx, 0, ctrlOut, TRUE)
        bal2 == tagUtxoController(bal1, tx, 1, ctrlOut, FALSE)
        cm == Put(Put(st.ctrlMap, opKey(tx.Txid, 0),
                      [Controller |-> ctrlOut, IsController |-> TRUE]),
                  opKey(tx.Txid, 1), [Controller |-> ctrlOut, IsController |-> FALSE])
        aff == NonEmptyAddrs(SubSeq(tx.Vout, 1, IF Len(tx.Vout) < 2 THEN Len(tx.Vout) ELSE 2),
                             ctrlOut)
               \cup NonEmptyAddrs(TaInputs(st.bal, tx), ctrlOut)
        mintMore == oldCtrl # <<>> /\ oldCtrl # ctrlOut
        wb1 == IF mintMore
               THEN Put(st.wbAc, oldCtrl,
                        RedirectEntry(RedirectTarget(oldCtrl, ctrlOut)))
               ELSE st.wbAc
        wb2 == Put(wb1, ctrlOut, BuildRegistryEntry(tx, ctrlOut, oldCtrl, f))
    IN [st EXCEPT !.bal = bal2,
                  !.ctrlMap = cm,
                  !.affected = @ \cup aff,
                  !.assetTxs = Append(@, [controller |-> ctrlOut, tx |-> tx,
                                          indexes |-> <<0, 1>>,
                                          inputCtrl |-> oldCtrl,
                                          assetTotal |-> 0]),
                  !.wbAc = wb2,
                  !.reads = @ \cup old[2] \cup (IF mintMore THEN {"registry"} ELSE {})]

\* a phase 1 that tags output 0 of a v10 before it looks at the number of
\* outputs
Phase1Tx_GateAfterTagging(st, tx, f) ==
    IF tx.Version # TxVersionAssetCreate THEN st
    ELSE IF Len(tx.Vout) < 2
         THEN [st EXCEPT
                 !.bal = tagUtxoController(@, tx, 0,
                                           packControllerOutpoint(tx.Txid, 0), TRUE),
                 !.ctrlMap = Put(@, opKey(tx.Txid, 0),
                                 [Controller |-> packControllerOutpoint(tx.Txid, 0),
                                  IsController |-> TRUE])]
         ELSE Phase1Create(st, tx, f)

\* phase 1 of processAssetsCoordinateType for one transaction
Phase1Tx(st, tx, f) ==
    IF tx.Version # TxVersionAssetCreate \/ Len(tx.Vout) < 2 THEN st
    ELSE Phase1Create(st, tx, f)

RECURSIVE Phase1(_, _, _, _)
Phase1(st, txs, i, f) ==
    IF i > Len(txs) THEN st ELSE Phase1(Phase1Tx(st, txs[i], f), txs, i + 1, f)

RECURSIVE Phase2Inputs(_, _, _, _, _)
\* the input pass of a v11: acc holds assetTotal, the first controller found,
\* the affected pairs and the store reads made
Phase2Inputs(st, tx, i, acc, f) ==
    IF i > Len(tx.Vin) THEN acc
    ELSE
    LET ci == InputController(st, tx.Vin[i], f)
        rd == InputReads(st, tx.Vin[i])
        inp == TaInputs(st.bal, tx)[i]
        lg == acc.log \cup {InputLogEntry(st, tx, tx.Vin[i], ci, inp.ValueSat)}
    IN IF ci.Controller = <<>>
       THEN Phase2Inputs(st, tx, i + 1,
                         [acc EXCEPT !.reads = @ \cup rd, !.log = lg], f)
       ELSE
       LET ctrl == IF acc.controller = <<>> THEN ci.Controller ELSE acc.controller
           total == IF ci.IsController THEN acc.assetTotal
                    ELSE acc.assetTotal + inp.ValueSat
           aff == IF inp.AddrDesc # <<>> THEN {<<inp.AddrDesc, ctrl>>} ELSE {}
       IN Phase2Inputs(st, tx, i + 1,
                       [assetTotal |-> total, controller |-> ctrl,
                        affected |-> acc.affected \cup aff,
                        reads |-> acc.reads \cup rd, log |-> lg], f)

\* a fill loop whose test never fires
FillDone_Never(filled, assetTotal) == FALSE

\* a fill loop that goes on while the filled value equals assetTotal
FillDone_OnlyWhenExceeded(filled, assetTotal) == filled > assetTotal

\* the test at the head of the fill loop: filled.Cmp(&assetTotal) >= 0
FillDone(filled, assetTotal) == filled >= assetTotal

RECURSIVE FillOutputs(_, _, _, _, _)
\* the fill loop of a v11 from output i (0-based) on: tags outputs in index
\* order until the filled value reaches assetTotal
FillOutputs(acc, tx, i, assetTotal, resolved) ==
    IF i >= Len(tx.Vout) \/ FillDone(acc.filled, assetTotal) THEN acc
    ELSE
    LET out == tx.Vout[i + 1]
        aff == IF out.AddrDesc # <<>> THEN {<<out.AddrDesc, resolved>>} ELSE {}
    IN FillOutputs(
         [bal |-> tagUtxoController(acc.bal, tx, i, resolved, FALSE),
          ctrlMap |-> Put(acc.ctrlMap, opKey(tx.Txid, i),
                          [Controller |-> resolved, IsController |-> FALSE]),
          affected |-> acc.affected \cup aff,
          filled |-> acc.filled + out.ValueSat,
          filledIdx |-> Append(acc.filledIdx, i)],
         tx, i + 1, assetTotal, resolved)

\* a transfer skipped only when no controller was found
NoTransfer_OnlyWithoutController(controller, assetTotal) == controller = <<>>

\* controller == nil || assetTotal.Sign() == 0
NoTransfer(controller, assetTotal) == controller = <<>> \/ assetTotal = 0

\* a phase 2 that also takes peg-in transactions for transfers
IsAssetTransfer_AlsoPegin(tx) ==
    tx.Version \in {TxVersionAssetXfer, TxVersionPegin}

\* the gate of phase 2: tx.Version == 11
IsAssetTransfer(tx) == tx.Version = TxVersionAssetXfer

\* phase 2 of processAssetsCoordinateType for one transaction
Phase2Tx(st, tx, f) ==
    IF ~IsAssetTransfer(tx) THEN st
    ELSE
    LET in == Phase2Inputs(st, tx, 1,
                           [assetTotal |-> 0, controller |-> <<>>,
                            affected |-> st.affected, reads |-> st.reads,
                            log |-> st.inputLog], f)
        st1 == [st EXCEPT !.affected = in.affected, !.reads = in.reads,
                          !.inputLog = in.log]
    IN IF NoTransfer(in.controller, in.assetTotal) THEN st1
       ELSE
       LET resolved == ResolveCurrentController(
                           ac, in.controller, IF "resolve" \in f THEN 0 ELSE -1)
           out == FillOutputs([bal |-> st1.bal, ctrlMap |-> st1.ctrlMap,
                               affected |-> st1.affected, filled |-> 0,
                               filledIdx |-> <<>>],
                              tx, 0, in.assetTotal, resolved)
       IN [st1 EXCEPT !.bal = out.bal,
                      !.ctrlMap = out.ctrlMap,
                      !.affected = out.affected,
                      !.assetTxs = Append(@, [controller |-> resolved, tx |-> tx,
                                              indexes |-> out.filledIdx,
                                              inputCtrl |-> in.controller,
                                              assetTotal |-> in.assetTotal]),
                      !.reads = @ \cup {"resolve"}]

RECURSIVE Phase2(_, _, _, _)
Phase2(st, txs, i, f) ==
    IF i > Len(txs) THEN st ELSE Phase2(Phase2Tx(st, txs[i], f), txs, i + 1, f)

\* phase 3a, the balance of one pair: the value of the address's live UTXOs
\* whose Controller equals ctrl
AssetBalOf(bal, addrDesc, ctrl) ==
    LET mine == {op \in DOMAIN bal.u \ bal.spent :
                    /\ bal.u[op].AddrDesc = addrDesc
                    /\ bal.u[op].Controller = ctrl}
    IN SumOver(mine, [op \in mine |-> bal.u[op].ValueSat])

\* GetAddrAssetBalance
GetAddrAssetBalance(addrDesc, ctrl, fails) ==
    LET key == makeAddrAssetKey(addrDesc, ctrl) IN
    IF fails \/ key \notin DOMAIN aa THEN [found |-> FALSE, Txs |-> 0, SentSat |-> 0]
    ELSE [found |-> TRUE, Txs |-> aa[key].Txs, SentSat |-> aa[key].SentSat]

\* a phase 3a that starts every staged record at txCount 1
NewAddrAssetBalance_NoCarry(bal, addrDesc, ctrl, f) ==
    [Txs |-> 1,
     BalanceSat |-> AssetBalOf(bal, addrDesc, ctrl),
     SentSat |-> 0]

\* phase 3a for one affected pair: the AddrAssetBalance staged for it
NewAddrAssetBalance(bal, addrDesc, ctrl, f) ==
    LET existing == GetAddrAssetBalance(addrDesc, ctrl, "balance" \in f) IN
    [Txs |-> IF existing.found THEN existing.Txs + 1 ELSE 1,
     BalanceSat |-> AssetBalOf(bal, addrDesc, ctrl),
     SentSat |-> IF existing.found THEN existing.SentSat ELSE 0]

\* phase 3a: one put per affected pair
Phase3a(st, f) ==
    LET keys == {makeAddrAssetKey(p[1], p[2]) : p \in st.affected}
        pairOf(k) == CHOOSE p \in st.affected : makeAddrAssetKey(p[1], p[2]) = k
    IN [k \in keys |-> NewAddrAssetBalance(st.bal, pairOf(k)[1], pairOf(k)[2], f)]

\* appendToCF: reads the committed value of the key and stages the committed
\* value followed by val, or val alone when the key is missing or the read fails
appendToCF(wb, committed, key, val, fails) ==
    IF ~fails /\ key \in DOMAIN committed
    THEN Put(wb, key, committed[key] \o val)
    ELSE Put(wb, key, val)

\* the distinct non-empty addresses of a history record: those of its tagged
\* outputs and of its inputs
HistoryAddrs(bal, ate) ==
    {ate.tx.Vout[ate.indexes[j] + 1].AddrDesc :
        j \in {k \in 1..Len(ate.indexes) : ate.indexes[k] < Len(ate.tx.Vout)}}
    \cup {TaInputs(bal, ate.tx)[i].AddrDesc : i \in 1..Len(ate.tx.Vin)}

\* the addresses phase 3b looks at for one record, in the order of its two
\* loops: those of the tagged outputs, then those of the inputs
HistoryCandidates(bal, ate) ==
    LET idx == {k \in 1..Len(ate.indexes) : ate.indexes[k] < Len(ate.tx.Vout)}
        outs == [k \in 1..Len(ate.indexes) |->
                    IF k \in idx THEN ate.tx.Vout[ate.indexes[k] + 1].AddrDesc
                    ELSE <<>>]
        ins == [i \in 1..Len(ate.tx.Vin) |-> TaInputs(bal, ate.tx)[i].AddrDesc]
    IN outs \o ins

\* a phase 3b that never finds an address in its seen map
Seen_Never(seen, ad) == FALSE

\* seen[ad] of phase 3b
Seen(seen, ad) == ad \in seen

RECURSIVE AppendAddrs(_, _, _, _, _, _, _, _)
\* the per-address appends of one record: w holds the staged "ax:" puts and
\* the appendToCF calls made so far
AppendAddrs(w, cands, i, seen, ctrl, h, val, f) ==
    IF i > Len(cands) THEN w
    ELSE LET ad == cands[i] IN
         IF ad = <<>> \/ Seen(seen, ad)
         THEN AppendAddrs(w, cands, i + 1, seen, ctrl, h, val, f)
         ELSE AppendAddrs(
                 [ax |-> appendToCF(w.ax, ax, makeAddrAssetTxKey(ad, ctrl, h), val,
                                    "history" \in f),
                  calls |-> Append(w.calls,
                                   [key |-> makeAddrAssetTxKey(ad, ctrl, h),
                                    val |-> val])],
                 cands, i + 1, seen \cup {ad}, ctrl, h, val, f)

RECURSIVE Phase3b(_, _, _, _, _)
\* phase 3b: the history appends of the block's records, in their order;
\* w holds the staged "gt:" and "ax:" puts and the appendToCF calls made
Phase3b(w, st, i, h, f) ==
    IF i > Len(st.assetTxs) THEN w
    ELSE
    LET ate == st.assetTxs[i]
        val == packAssetTxEntry(PackTxid(ate.tx.Txid), ate.indexes)
        g == appendToCF(w.gt, gt, makeGlobalAssetTxKey(ate.controller, h), val,
                        "history" \in f)
        a == AppendAddrs([ax |-> w.ax,
                          calls |-> Append(w.calls,
                                           [key |-> makeGlobalAssetTxKey(
                                                        ate.controller, h),
                                            val |-> val])],
                         HistoryCandidates(st.bal, ate), 1, {}, ate.controller,
                         h, val, f)
    IN Phase3b([gt |-> g, ax |-> a.ax, calls |-> a.calls], st, i + 1, h, f)

\* what processAssetsCoordinateType leaves behind: the tagged balances, the
\* staged puts, the store reads it made, and its return value (err)
PropagatorResult(st2, hist, f) ==
    [bal |-> st2.bal,
     ctrlMap |-> st2.ctrlMap,
     affected |-> st2.affected,
     assetTxs |-> st2.assetTxs,
     inputLog |-> st2.inputLog,
     wbAc |-> st2.wbAc,
     wbAa |-> Phase3a(st2, f),
     wbGt |-> hist.gt,
     wbAx |-> hist.ax,
     appendCalls |-> hist.calls,
     reads |-> st2.reads
               \cup (IF st2.affected # {} THEN {"balance"} ELSE {})
               \cup (IF st2.assetTxs # <<>> THEN {"history"} ELSE {}),
     err |-> FALSE]

\* phase 3 on the state the first two phases left
Phase3(st2, h, f) ==
    PropagatorResult(st2, Phase3b([gt |-> EmptyMap, ax |-> EmptyMap, calls |-> <<>>], st2, 1, h, f), f)

\* processAssetsCoordinateType on the block txs of height h, with the store
\* reads of the sites in f failing
processAssetsCoordinateType(txs, h, f) ==
    Phase3(Phase2(Phase1([bal |-> processAddressesBitcoinType(txs, h),
                          ctrlMap |-> EmptyMap, affected |-> {}, assetTxs |-> <<>>,
                          wbAc |-> EmptyMap, reads |-> {}, inputLog |-> {}],
                         txs, 1, f),
                  txs, 1, f),
           h, f)

(* ------------------------------------------------------------------ *)
(* State machine                                                        *)
(* ------------------------------------------------------------------ *)

NoCall == [op |-> "none"]

NoBatch == [phase |-> "none"]

NoBlock ==
    [txs |-> <<>>, assetTxs |-> <<>>, inputLog |-> {}, ctrlKeys |-> {},
     faults |-> {}, reads |-> {}, err |-> FALSE]

\* the store reads of processAssetsCoordinateType that can fail
ReadSites == {"lookup", "registry", "resolve", "balance", "history"}

Init ==
    /\ height = 0
    /\ nextTxid = 1
    /\ pending = <<>>
    /\ utxos = EmptyMap
    /\ ac = EmptyMap
    /\ aa = EmptyMap
    /\ gt = EmptyMap
    /\ ax = EmptyMap
    /\ last = NoBlock
    /\ ret = NoCall
    /\ lineage = EmptyMap
    /\ appeared = EmptyMap
    /\ batch = NoBatch

\* the outputs a new transaction of the pending block may spend: committed
\* or created earlier in the block, and not spent by the block so far
LiveOutpoints ==
    (DOMAIN utxos \cup UNION {TxOutpoints(pending[i]) : i \in 1..Len(pending)})
    \ BlockInputs(pending)

InputLists(S) ==
    UNION {{vin \in [1..n -> S] : \A i, j \in 1..n : i # j => vin[i] # vin[j]} :
           n \in 0..MaxIns}

\* the asset metadata in the CoinSpecificData of the transaction txid, each
\* transaction with values of its own
CoinSpecificData(txid) ==
    [Ticker |-> <<100 + txid>>, Headline |-> <<200 + txid>>,
     Precision |-> txid, AssetType |-> txid]

\* GetBlock appends the next transaction of the block being fetched; a run
\* has at most maxTxs transactions
AddTxBody(maxTxs, versions, assetLists) ==
    /\ nextTxid <= maxTxs
    /\ Len(pending) < MaxBlockTxs
    /\ \E ver \in versions, vin \in InputLists(LiveOutpoints) :
       \E vout \in IF ver \in {TxVersionAssetCreate, TxVersionAssetXfer}
                   THEN assetLists ELSE OrdinaryOutputLists :
          pending' = Append(pending,
                            [Txid |-> nextTxid, Version |-> ver, Vin |-> vin,
                             Vout |-> vout,
                             Ticker |-> CoinSpecificData(nextTxid).Ticker,
                             Headline |-> CoinSpecificData(nextTxid).Headline,
                             Precision |-> CoinSpecificData(nextTxid).Precision,
                             AssetType |-> CoinSpecificData(nextTxid).AssetType])
    /\ nextTxid' = nextTxid + 1
    /\ UNCHANGED <<height, utxos, ac, aa, gt, ax, last, lineage, appeared, batch>>

\* the same, seen from the API: the last read is forgotten
AddTxOf(maxTxs, versions, assetLists) ==
    AddTxBody(maxTxs, versions, assetLists) /\ ret' = NoCall

AddTxFrom(maxTxs, assetLists) == AddTxOf(maxTxs, Versions, assetLists)

AddTxUpTo(maxTxs) == AddTxFrom(maxTxs, OutputListsFor(TxVersionAssetXfer))

AddTx == AddTxUpTo(MaxTxs)

\* transactions with the output lists of the fill rule
AddTxFill == AddTxFrom(MaxApiTxs, FillOutputLists)

AddTxApi == AddTxUpTo(MaxApiTxs)

\* a transaction as GetBlock returns it
BlockTx(txid, ver, vin, vout) ==
    [Txid |-> txid, Version |-> ver, Vin |-> vin, Vout |-> vout,
     Ticker |-> CoinSpecificData(txid).Ticker,
     Headline |-> CoinSpecificData(txid).Headline,
     Precision |-> CoinSpecificData(txid).Precision,
     AssetType |-> CoinSpecificData(txid).AssetType]

\* GetBlock returns a block in which a v11 stands before the v10 whose
\* output it spends
AddTransferBeforeMint ==
    /\ nextTxid + 1 <= MaxTxs
    /\ Len(pending) + 2 <= MaxBlockTxs
    /\ \E vin \in InputLists(LiveOutpoints), mint \in OutputLists,
          xfer \in OutputLists :
       \E k \in 0..(Len(mint) - 1) :
          pending' = pending \o
             << BlockTx(nextTxid, TxVersionAssetXfer,
                        <<opKey(nextTxid + 1, k)>>, xfer),
                BlockTx(nextTxid + 1, TxVersionAssetCreate, vin, mint) >>
    /\ nextTxid' = nextTxid + 2
    /\ ret' = NoCall
    /\ UNCHANGED <<height, utxos, ac, aa, gt, ax, last, lineage, appeared, batch>>

\* the identity whose controller coin (its output 0) the v10 tx re-issues:
\* that of its first input that is output 0 of a v10 with two outputs
RECURSIVE ParentOf(_, _, _)
ParentOf(lin, vin, i) ==
    IF i > Len(vin) THEN <<>>
    ELSE IF vin[i][2] = 0 /\ packControllerOutpoint(vin[i][1], 0) \in DOMAIN lin
         THEN packControllerOutpoint(vin[i][1], 0)
         ELSE ParentOf(lin, vin, i + 1)

RECURSIVE Lineage(_, _, _)
\* lineage after the transactions txs[i..] of a block
Lineage(lin, txs, i) ==
    IF i > Len(txs) THEN lin
    ELSE LET tx == txs[i]
             me == packControllerOutpoint(tx.Txid, 0)
             parent == ParentOf(lin, tx.Vin, 1)
         IN IF tx.Version # TxVersionAssetCreate \/ Len(tx.Vout) < 2
            THEN Lineage(lin, txs, i + 1)
            ELSE Lineage(Put(lin, me,
                             [root |-> IF parent = <<>> THEN me ELSE lin[parent].root,
                              supply |-> tx.Vout[2].ValueSat,
                              addressed |-> tx.Vout[1].AddrDesc # <<>>]),
                         txs, i + 1)

\* the controller tag of the output op when a transaction of the block spends
\* it: the tag the block gave it, else the committed one
SpentTag(r, op) ==
    IF op \in DOMAIN r.ctrlMap THEN r.ctrlMap[op].Controller
    ELSE IF op \in DOMAIN utxos THEN utxos[op].Controller
    ELSE <<>>

\* the pairs of the inputs of an asset transaction: the address of each spent
\* output with the tag it holds and, for a v10, with the identity it creates
AppearedInputs(r, tx) ==
    IF tx.Version = TxVersionAssetXfer
       \/ (tx.Version = TxVersionAssetCreate /\ Len(tx.Vout) >= 2)
    THEN LET ins == {op \in Range(tx.Vin) : r.bal.u[op].AddrDesc # <<>>}
         IN {<<r.bal.u[op].AddrDesc, SpentTag(r, op)>> :
                op \in {x \in ins : SpentTag(r, x) # <<>>}}
            \cup (IF tx.Version = TxVersionAssetCreate
                  THEN {<<r.bal.u[op].AddrDesc, packControllerOutpoint(tx.Txid, 0)>> :
                           op \in ins}
                  ELSE {})
    ELSE {}

\* the pairs of the tagged outputs of a history record
AppearedOutputs(e) ==
    {<<e.tx.Vout[e.indexes[j] + 1].AddrDesc, e.controller>> :
        j \in {k \in 1..Len(e.indexes) :
                 /\ e.indexes[k] < Len(e.tx.Vout)
                 /\ e.tx.Vout[e.indexes[k] + 1].AddrDesc # <<>>}}

\* the pairs that appear in the block
AppearedIn(r, txs) ==
    UNION {AppearedInputs(r, txs[i]) : i \in 1..Len(txs)}
    \cup UNION {AppearedOutputs(r.assetTxs[i]) : i \in 1..Len(r.assetTxs)}

\* appeared after a block in which the pairs of S appear
CountBlock(S) ==
    [p \in DOMAIN appeared \cup S |->
        (IF p \in DOMAIN appeared THEN appeared[p] ELSE 0)
        + (IF p \in S THEN 1 ELSE 0)]

\* ConnectBlock on the fetched block: the base indexer, then
\* processAssetsCoordinateType with the store reads of the sites in f
\* failing, then the atomic commit of the write batch
CommitBlock(r, h, f) ==
    /\ utxos' = [op \in DOMAIN r.bal.u \ r.bal.spent |-> r.bal.u[op]]
    /\ ac' = Commit(ac, r.wbAc)
    /\ aa' = Commit(aa, r.wbAa)
    /\ gt' = Commit(gt, r.wbGt)
    /\ ax' = Commit(ax, r.wbAx)
    /\ height' = h
    /\ last' = [txs |-> pending, assetTxs |-> r.assetTxs,
                inputLog |-> r.inputLog, ctrlKeys |-> DOMAIN r.ctrlMap,
                faults |-> f,
                reads |-> r.reads, err |-> r.err]
    /\ appeared' = CountBlock(AppearedIn(r, pending))

ConnectBlockWith(f) ==
    /\ pending # <<>>
    /\ CommitBlock(processAssetsCoordinateType(pending, height + 1, f), height + 1, f)
    /\ lineage' = Lineage(lineage, pending, 1)
    /\ pending' = <<>>
    /\ ret' = NoCall
    /\ UNCHANGED <<nextTxid, batch>>

ConnectBlock == ConnectBlockWith({})

ConnectBlockFaulty == \E f \in SUBSET ReadSites : ConnectBlockWith(f)

(* ------------------------------------------------------------------ *)
(* API reads                                                            *)
(* ------------------------------------------------------------------ *)

RECURSIVE BytesLess(_, _)
\* bytes.Compare(a, b) < 0
BytesLess(a, b) ==
    IF Len(b) = 0 THEN FALSE
    ELSE IF Len(a) = 0 THEN TRUE
    ELSE IF a[1] # b[1] THEN a[1] < b[1]
    ELSE BytesLess(Tail(a), Tail(b))

RECURSIVE SortedKeys(_)
\* the keys of S in the store's iteration order
SortedKeys(S) ==
    IF S = {} THEN <<>>
    ELSE LET k == CHOOSE x \in S : \A y \in S \ {x} : BytesLess(x, y)
         IN <<k>> \o SortedKeys(S \ {k})

\* GetAddrDescAssets: seeks to the prefix addrDesc and reports every key up to
\* the first that does not start with it; the controller is the rest of the key
GetAddrDescAssets(addrDesc) ==
    LET keys == SortedKeys({k \in DOMAIN aa : IsPrefix(addrDesc, k)})
    IN [i \in 1..Len(keys) |->
          [Controller |-> Tail0(keys[i], Len(addrDesc)), Balance |-> aa[keys[i]]]]

\* the controllers an API caller asks about: every identity a transaction
\* of the run can create
Controllers == {packControllerOutpoint(t, 0) : t \in 1..MaxTxs}

GetAddrDescAssetsCall ==
    /\ pending = <<>>
    /\ \E a \in {AddrA, AddrB} :
          ret' = [op |-> "GetAddrDescAssets", addrDesc |-> a,
                  result |-> GetAddrDescAssets(a)]
    /\ UNCHANGED <<height, nextTxid, pending, utxos, ac, aa, gt, ax, last, lineage,
                   appeared, batch>>

RECURSIVE TakeInRange(_, _, _, _)
\* the loop over the keys from the seek position on: up to the first key
\* that does not start with prefix or is greater than stopKey
TakeInRange(keys, i, prefix, stopKey) ==
    IF i > Len(keys) THEN <<>>
    ELSE IF ~IsPrefix(prefix, keys[i]) THEN <<>>
    ELSE IF BytesLess(stopKey, keys[i]) THEN <<>>
    ELSE <<keys[i]>> \o TakeInRange(keys, i + 1, prefix, stopKey)

\* the records of one key, each with the height read from the key's last
\* four bytes
RecordsOfKey(store, key) ==
    LET h == unpackDescHeight(SubSeq(key, Len(key) - 3, Len(key)))
        recs == ParseHistoryValue(store[key])
    IN [i \in 1..Len(recs) |->
          [Txid |-> recs[i].Txid, Height |-> h, Indexes |-> recs[i].Indexes]]

RECURSIVE RecordsOfKeys(_, _, _)
RecordsOfKeys(store, keys, i) ==
    IF i > Len(keys) THEN <<>>
    ELSE RecordsOfKey(store, keys[i]) \o RecordsOfKeys(store, keys, i + 1)

\* an iterator that does not stop at the lower bound
IterateHistory_NoLowerBound(store, prefix, lower, higher) ==
    LET startKey == prefix \o packDescHeight(higher)
        stopKey == prefix \o packDescHeight(0)
        fromSeek == SortedKeys({k \in DOMAIN store : ~BytesLess(k, startKey)})
    IN RecordsOfKeys(store, TakeInRange(fromSeek, 1, prefix, stopKey), 1)

\* the records a history iterator reaches, in the order it reaches them:
\* it seeks to prefix || packDescHeight(higher) and walks the keys in order
IterateHistory(store, prefix, lower, higher) ==
    LET startKey == prefix \o packDescHeight(higher)
        stopKey == prefix \o packDescHeight(lower)
        fromSeek == SortedKeys({k \in DOMAIN store : ~BytesLess(k, startKey)})
    IN RecordsOfKeys(store, TakeInRange(fromSeek, 1, prefix, stopKey), 1)

\* the callbacks of the model: fn returns nil, except at its invocation
\* number at, where it returns the StopIteration sentinel or another error
Callbacks ==
    {[kind |-> "nil", at |-> 0]}
    \cup {[kind |-> k, at |-> n] : k \in {"stop", "error"}, n \in 1..2}

FnResult(fn, i) == IF fn.kind # "nil" /\ i = fn.at THEN fn.kind ELSE "nil"

\* an error handling that hands the sentinel back like any other error
CallbackOutcome_StopIsError(e) == e

\* what the iterator returns when fn returned the error e: nil for the
\* StopIteration sentinel, else e
CallbackOutcome(e) == IF e = "stop" THEN "nil" ELSE e

RECURSIVE RunCallback(_, _, _)
\* fn invoked on the records from number i on: the invocations made and the
\* error the iterator returns
RunCallback(recs, fn, i) ==
    IF i > Len(recs) THEN [calls |-> recs, err |-> "nil"]
    ELSE IF FnResult(fn, i) = "nil" THEN RunCallback(recs, fn, i + 1)
    ELSE [calls |-> SubSeq(recs, 1, i), err |-> CallbackOutcome(FnResult(fn, i))]

GetAssetTransactions(controller, lower, higher, fn) ==
    RunCallback(IterateHistory(gt, controller, lower, higher), fn, 1)

GetAddrDescAssetTransactions(addrDesc, controller, lower, higher, fn) ==
    RunCallback(IterateHistory(ax, addrDesc \o controller, lower, higher), fn, 1)

\* the height bounds and the controllers an API caller passes; a history
\* read is made on a store no read has been made on since the last step of
\* the ingestion (a read changes nothing a later read sees)
HistoryHeights == 0..(MaxApiTxs + 1)
ApiControllers == {packControllerOutpoint(t, 0) : t \in 1..MaxApiTxs}

HistoryRet(name, a, c, lo, hi, fn, r) ==
    [op |-> name, addrDesc |-> a, controller |-> c, lower |-> lo, higher |-> hi,
     fn |-> fn, calls |-> r.calls, err |-> r.err]

GetAssetTransactionsCall ==
    /\ pending = <<>>
    /\ ret = NoCall
    /\ \E c \in ApiControllers, lo \in HistoryHeights, hi \in HistoryHeights,
          fn \in Callbacks :
          ret' = HistoryRet("GetAssetTransactions", <<>>, c, lo, hi, fn,
                            GetAssetTransactions(c, lo, hi, fn))
    /\ UNCHANGED <<height, nextTxid, pending, utxos, ac, aa, gt, ax, last, lineage,
                   appeared, batch>>

GetAddrDescAssetTransactionsCall ==
    /\ pending = <<>>
    /\ ret = NoCall
    /\ \E a \in {AddrA, AddrB}, c \in ApiControllers, lo \in HistoryHeights,
          hi \in HistoryHeights, fn \in Callbacks :
          ret' = HistoryRet("GetAddrDescAssetTransactions", a, c, lo, hi, fn,
                            GetAddrDescAssetTransactions(a, c, lo, hi, fn))
    /\ UNCHANGED <<height, nextTxid, pending, utxos, ac, aa, gt, ax, last, lineage,
                   appeared, batch>>

\* ResolveCurrentController called by the API with the read of iteration
\* failAt failing; the caller is handed the identity alone, so no error
ResolveCallWith(c, failAt) ==
    /\ pending = <<>>
    /\ LET r == ResolveLoop(ac, c, 0, failAt)
       IN ret' = [op |-> "ResolveCurrentController", controller |-> c,
                  result |-> ResolveCurrentController(ac, c, failAt),
                  reads |-> r.reads, readErr |-> r.readErr, err |-> FALSE]
    /\ UNCHANGED <<height, nextTxid, pending, utxos, ac, aa, gt, ax, last, lineage,
                   appeared, batch>>

ResolveCall == \E c \in Controllers : ResolveCallWith(c, -1)

ResolveCallFaulty == \E c \in Controllers, failAt \in -1..1 : ResolveCallWith(c, failAt)

(* ------------------------------------------------------------------ *)
(* ResolveCurrentController running while blocks are committed           *)
(* ------------------------------------------------------------------ *)

\* one step along the redirects, none followed twice
WalkStep(reg, w) ==
    IF w.kind # "redirect" THEN w
    ELSE IF w.end \notin DOMAIN reg THEN [w EXCEPT !.kind = "missing"]
    ELSE IF ~reg[w.end].IsRedirect THEN [w EXCEPT !.kind = "normal"]
    ELSE IF reg[w.end].CurrentController \in w.seen \cup {w.end}
    THEN [w EXCEPT !.kind = "cycle"]
    ELSE [w EXCEPT !.end = reg[w.end].CurrentController,
                   !.seen = @ \cup {w.end},
                   !.redirects = @ + 1]

RECURSIVE WalkIterate(_, _, _)
WalkIterate(reg, w, n) ==
    IF w.kind # "redirect" \/ n <= 0 THEN w
    ELSE IF n = 1 THEN WalkStep(reg, w)
    ELSE WalkIterate(reg, WalkIterate(reg, w, n \div 2), n - (n \div 2))

\* the redirects from c on: where they end, in what (a missing entry, a
\* normal entry or a cycle), and how many there are
Walk(reg, c, seen) ==
    WalkIterate(reg, [end |-> c, kind |-> "redirect", seen |-> seen, redirects |-> 0],
                Cardinality(DOMAIN reg) + 1)

\* the identity at which the redirects from c end in the registry reg
Terminal(reg, c) == Walk(reg, c, {}).end

\* the API starts ResolveCurrentController(c): no read is made yet;
\* terminals collects the terminal identity of c in every committed state
\* from here to the return
StartResolve ==
    /\ ret.op # "resolving"
    /\ \E c \in Controllers :
          ret' = [op |-> "resolving", controller |-> c, st |-> LoopState(c, 0),
                  terminals |-> {Terminal(ac, c)}]
    /\ UNCHANGED <<height, nextTxid, pending, utxos, ac, aa, gt, ax, last, lineage,
                   appeared, batch>>

\* one iteration of the loop: one point read of the committed registry
ResolveRead ==
    /\ ret.op = "resolving"
    /\ ~ret.st.done
    /\ ret.st.reads < MaxRedirectHops
    /\ ret' = [ret EXCEPT !.st = ResolveStep(ac, ret.st, -1)]
    /\ UNCHANGED <<height, nextTxid, pending, utxos, ac, aa, gt, ax, last, lineage,
                   appeared, batch>>

\* the call returns the identity the loop ended with
ResolveReturn ==
    /\ ret.op = "resolving"
    /\ ret.st.done \/ ret.st.reads >= MaxRedirectHops
    /\ ret' = [op |-> "ResolveCurrentController", controller |-> ret.controller,
               result |-> ret.st.ctrl, reads |-> ret.st.reads,
               readErr |-> ret.st.readErr, err |-> FALSE,
               terminals |-> ret.terminals]
    /\ UNCHANGED <<height, nextTxid, pending, utxos, ac, aa, gt, ax, last, lineage,
                   appeared, batch>>

\* the ingestion fetches the next v10 while the API runs
AddMintDuringRead ==
    /\ AddTxBody(MaxTxs, {TxVersionAssetCreate}, OutputLists)
    /\ UNCHANGED ret

\* the ingestion commits a block, atomically, between two reads of the API
CommitDuringRead ==
    /\ pending # <<>>
    /\ CommitBlock(processAssetsCoordinateType(pending, height + 1, {}), height + 1, {})
    /\ lineage' = Lineage(lineage, pending, 1)
    /\ pending' = <<>>
    /\ ret' = IF ret.op = "resolving"
              THEN [ret EXCEPT !.terminals = @ \cup {Terminal(ac', ret.controller)}]
              ELSE ret
    /\ UNCHANGED <<nextTxid, batch>>

(* ------------------------------------------------------------------ *)
(* ConnectBlock in two steps: the propagator stages, the caller writes   *)
(* ------------------------------------------------------------------ *)

\* the committed store
Store == [utxos |-> utxos, ac |-> ac, aa |-> aa, gt |-> gt, ax |-> ax]

\* the puts processAssetsCoordinateType made on the write batch
StagedWrites(r) == [ac |-> r.wbAc, aa |-> r.wbAa, gt |-> r.wbGt, ax |-> r.wbAx]

\* a propagator that also writes its registry puts to the store
DirectWrites_RegistryWrittenThrough(r) ==
    [ac |-> r.wbAc, aa |-> EmptyMap, gt |-> EmptyMap, ax |-> EmptyMap]

\* the writes processAssetsCoordinateType made on the store itself: it
\* calls d.db for reads only
DirectWrites(r) ==
    [ac |-> EmptyMap, aa |-> EmptyMap, gt |-> EmptyMap, ax |-> EmptyMap]

\* processAssetsCoordinateType has returned r; nothing is written yet
StageBlock(r) ==
    /\ ac' = Commit(ac, DirectWrites(r).ac)
    /\ aa' = Commit(aa, DirectWrites(r).aa)
    /\ gt' = Commit(gt, DirectWrites(r).gt)
    /\ ax' = Commit(ax, DirectWrites(r).ax)
    /\ batch' = [phase |-> "staged", r |-> r, before |-> Store]
    /\ UNCHANGED <<height, nextTxid, pending, utxos, last, ret, lineage, appeared>>

ProcessBlock ==
    /\ pending # <<>>
    /\ batch.phase # "staged"
    /\ StageBlock(processAssetsCoordinateType(pending, height + 1, {}))

\* the caller writes the batch: every put of the block lands
WriteBatch ==
    /\ batch.phase = "staged"
    /\ CommitBlock(batch.r, height + 1, {})
    /\ lineage' = Lineage(lineage, pending, 1)
    /\ pending' = <<>>
    /\ ret' = NoCall
    /\ batch' = [batch EXCEPT !.phase = "written"]
    /\ UNCHANGED nextTxid

\* the write of the batch fails: the block is not connected
FailWrite ==
    /\ batch.phase = "staged"
    /\ pending' = <<>>
    /\ batch' = [batch EXCEPT !.phase = "failed"]
    /\ UNCHANGED <<height, nextTxid, utxos, ac, aa, gt, ax, last, ret, lineage,
                   appeared>>

\* no transaction is added to a block the propagator has worked on
AddTxBatch == batch.phase # "staged" /\ AddTxApi

\* the fetched block's transactions, of every version the chain has
AddTxOpaque ==
    batch.phase # "staged" /\ AddTxOf(MaxTxs, AllVersions, OutputLists)

(* ------------------------------------------------------------------ *)
(* Registry entries written directly, as a batch put of the packed entry *)
(* ------------------------------------------------------------------ *)

SeedControllers == {packControllerOutpoint(t, 0) : t \in 1..MaxSeeds}

\* a normal entry or a redirect, pointing at any of the identities
SeedEntries ==
    {NormalEntry(<<>>, DefaultPrecision, 0, c) : c \in SeedControllers}
    \cup {RedirectEntry(c) : c \in SeedControllers}

\* wb.PutCF(key, packAssetRegistryEntry(entry)) followed by the write
PutRegistryEntry ==
    /\ pending = <<>>
    /\ \E c \in SeedControllers, e \in SeedEntries : ac' = Put(ac, c, e)
    /\ ret' = NoCall
    /\ UNCHANGED <<height, nextTxid, pending, utxos, aa, gt, ax, last, lineage,
                   appeared, batch>>

\* the registry of n redirects (1,0) -> (2,0) -> ... -> (n + 1,0), the
\* last identity holding a normal entry
RedirectChain(n) ==
    [c \in {packControllerOutpoint(t, 0) : t \in 1..(n + 1)} |->
        IF UnpackTxid(SubSeq(c, 1, PackedTxidLen)) = n + 1
        THEN NormalEntry(<<>>, DefaultPrecision, 0, c)
        ELSE RedirectEntry(packControllerOutpoint(
                 UnpackTxid(SubSeq(c, 1, PackedTxidLen)) + 1, 0))]

\* a chain just below and one beyond the hop limit
PutRedirectChain ==
    /\ pending = <<>>
    /\ \E n \in {MaxRedirectHops - 1, MaxRedirectHops + 1} : ac' = RedirectChain(n)
    /\ ret' = NoCall
    /\ UNCHANGED <<height, nextTxid, pending, utxos, aa, gt, ax, last, lineage,
                   appeared, batch>>

ResolveSeededCall == \E c \in SeedControllers : ResolveCallWith(c, -1)

(* ------------------------------------------------------------------ *)
(* Specifications                                                       *)
(* ------------------------------------------------------------------ *)

\* block ingestion alone, every store read succeeding
Next == AddTx \/ ConnectBlock

Spec == Init /\ [][Next]_vars

\* block ingestion with API reads between the blocks
NextApi == AddTxApi \/ ConnectBlock \/ GetAddrDescAssetsCall \/ ResolveCall

SpecApi == Init /\ [][NextApi]_vars

\* block ingestion and API reads with failing store reads
NextFaulty == AddTxApi \/ ConnectBlockFaulty \/ ResolveCallFaulty

SpecFaulty == Init /\ [][NextFaulty]_vars

\* blocks with transactions of the versions the asset layer does not read
NextOpaque == AddTxOpaque \/ ProcessBlock \/ WriteBatch \/ FailWrite

SpecOpaque == Init /\ [][NextOpaque]_vars

\* blocks in which a v11 may stand before the v10 it spends from
NextForward == AddTxApi \/ AddTransferBeforeMint \/ ConnectBlock

SpecForward == Init /\ [][NextForward]_vars

\* registry resolution by the API concurrent with the ingestion of mints
NextResolve ==
    AddMintDuringRead \/ CommitDuringRead \/ StartResolve \/ ResolveRead
    \/ ResolveReturn

SpecResolve == Init /\ [][NextResolve]_vars

\* block ingestion of transfers with three outputs
NextFill == AddTxFill \/ ConnectBlock

SpecFill == Init /\ [][NextFill]_vars

\* block ingestion with history reads between the blocks
NextHistory ==
    AddTxApi \/ ConnectBlock \/ GetAssetTransactionsCall
    \/ GetAddrDescAssetTransactionsCall

SpecHistory == Init /\ [][NextHistory]_vars

(* ------------------------------------------------------------------ *)
(* The descending height encoding over the range of uint32               *)
(* ------------------------------------------------------------------ *)

\* the 16-bit halves the heights are made of: both ends of the range, the
\* byte boundaries and the sign bit of a signed reading
HeightWords == {0, 1, 255, 256, 32767, 32768, 65535}

Heights32 == [hi : HeightWords, lo : HeightWords]

\* packDescHeight applied to two heights
PackDescHeightCall ==
    /\ ret.op # "packDescHeight"
    /\ \E h1 \in Heights32, h2 \in Heights32 :
          ret' = [op |-> "packDescHeight", h1 |-> h1, h2 |-> h2,
                  b1 |-> packDescHeightW(h1), b2 |-> packDescHeightW(h2)]
    /\ UNCHANGED <<height, nextTxid, pending, utxos, ac, aa, gt, ax, last, lineage,
                   appeared, batch>>

\* unpackDescHeight applied to a packed height
UnpackDescHeightCall ==
    /\ ret.op = "packDescHeight"
    /\ ret' = [op |-> "unpackDescHeight", h |-> ret.h1, buf |-> ret.b1,
               result |-> unpackDescHeightW(ret.b1)]
    /\ UNCHANGED <<height, nextTxid, pending, utxos, ac, aa, gt, ax, last, lineage,
                   appeared, batch>>

NextHeights == PackDescHeightCall \/ UnpackDescHeightCall

SpecHeights == Init /\ [][NextHeights]_vars

(* ------------------------------------------------------------------ *)
(* The value codecs applied to drawn inputs                              *)
(* ------------------------------------------------------------------ *)

\* the non-empty sequences over S of at most n elements
SeqsUpTo(S, n) == UNION {[1..k -> S] : k \in 1..n}

\* txids whose packed byte is below and above the continuation bit
CodecTxids == {1, 200}

\* output indexes whose shifted value takes one byte and two bytes
CodecIndexes == {0, 1, 5, 63, 64}

\* the (txid, indexes) records of a history value; a transaction has at
\* least one output, so an entry has at least one index
HistoryRecords ==
    [Txid : CodecTxids, Indexes : SeqsUpTo(CodecIndexes, MaxIndexes)]

RECURSIVE ConcatEntries(_, _)
\* appendToCF applied record after record: the concatenation of the
\* packAssetTxEntry values
ConcatEntries(recs, i) ==
    IF i > Len(recs) THEN <<>>
    ELSE packAssetTxEntry(PackTxid(recs[i].Txid), recs[i].Indexes)
         \o ConcatEntries(recs, i + 1)

\* a history value is built from drawn records
PackAssetTxEntryCall ==
    /\ ret = NoCall
    /\ \E recs \in SeqsUpTo(HistoryRecords, MaxRecords) :
          ret' = [op |-> "packAssetTxEntry", records |-> recs,
                  val |-> ConcatEntries(recs, 1)]
    /\ UNCHANGED <<height, nextTxid, pending, utxos, ac, aa, gt, ax, last, lineage,
                   appeared, batch>>

\* the history iterators parse the value
ParseHistoryValueCall ==
    /\ ret.op = "packAssetTxEntry"
    /\ ret' = [op |-> "ParseHistoryValue", records |-> ret.records,
               val |-> ret.val, parsed |-> ParseHistoryValue(ret.val)]
    /\ UNCHANGED <<height, nextTxid, pending, utxos, ac, aa, gt, ax, last, lineage,
                   appeared, batch>>

\* strings of no, one and two bytes
CodecStrings == {<<>>, <<71>>, <<71, 200>>}

\* numbers whose varuint takes one byte and two bytes
CodecSmallInts == {0, 8, 127, 128}

\* supplies of no, one, two, three and four bytes
CodecSupplies == {0, 1, 255, 256, 65536, 100000000}

\* controllers: an identity, and an outpoint whose vout takes two bytes
CodecControllers ==
    {packControllerOutpoint(1, 0), packControllerOutpoint(200, 0),
     packControllerOutpoint(2, 300)}

\* the registry entries of both shapes
RegistryEntries ==
    {[NormalEntry(t, pr, sup, c) EXCEPT !.Headline = h, !.AssetType = at] :
        t \in CodecStrings, h \in {<<>>, <<72>>}, pr \in CodecSmallInts,
        at \in {0, 1, 200}, sup \in CodecSupplies, c \in CodecControllers}
    \cup {RedirectEntry(c) : c \in CodecControllers}

PackAssetRegistryEntryCall ==
    /\ ret = NoCall
    /\ \E e \in RegistryEntries :
          ret' = [op |-> "packAssetRegistryEntry", entry |-> e,
                  packed |-> packAssetRegistryEntry(e)]
    /\ UNCHANGED <<height, nextTxid, pending, utxos, ac, aa, gt, ax, last, lineage,
                   appeared, batch>>

UnpackAssetRegistryEntryCall ==
    /\ ret.op = "packAssetRegistryEntry"
    /\ ret' = [op |-> "unpackAssetRegistryEntry", entry |-> ret.entry,
               packed |-> ret.packed,
               result |-> unpackAssetRegistryEntry(ret.packed)]
    /\ UNCHANGED <<height, nextTxid, pending, utxos, ac, aa, gt, ax, last, lineage,
                   appeared, batch>>

\* vouts of one to ten decimal digits and of one to five varuint bytes
CodecVouts == {0, 1, 9, 10, 127, 128, 255, 16384, 65535, 2147483647}

\* txids whose hex digits are all digits, all letters, and mixed
CodecOutpointTxids == {1, 58, 172, 200, 255}

PackControllerOutpointCall ==
    /\ ret = NoCall
    /\ \E txid \in CodecOutpointTxids, vout \in CodecVouts :
          ret' = [op |-> "packControllerOutpoint", txid |-> txid, vout |-> vout,
                  packed |-> packControllerOutpoint(txid, vout)]
    /\ UNCHANGED <<height, nextTxid, pending, utxos, ac, aa, gt, ax, last, lineage,
                   appeared, batch>>

UnpackControllerOutpointCall ==
    /\ ret.op = "packControllerOutpoint"
    /\ ret' = [op |-> "unpackControllerOutpoint", txid |-> ret.txid,
               vout |-> ret.vout, packed |-> ret.packed,
               result |-> unpackControllerOutpoint(ret.packed)]
    /\ UNCHANGED <<height, nextTxid, pending, utxos, ac, aa, gt, ax, last, lineage,
                   appeared, batch>>

FormatControllerOutpointCall ==
    /\ ret.op = "packControllerOutpoint"
    /\ ret' = [op |-> "FormatControllerOutpoint", packed |-> ret.packed,
               str |-> FormatControllerOutpoint(ret.packed)]
    /\ UNCHANGED <<height, nextTxid, pending, utxos, ac, aa, gt, ax, last, lineage,
                   appeared, batch>>

ParseControllerStringCall ==
    /\ ret.op = "FormatControllerOutpoint"
    /\ ret' = [op |-> "ParseControllerString", packed |-> ret.packed,
               str |-> ret.str, result |-> ParseControllerString(ret.str)]
    /\ UNCHANGED <<height, nextTxid, pending, utxos, ac, aa, gt, ax, last, lineage,
                   appeared, batch>>

NextCodec ==
    \/ PackAssetTxEntryCall \/ ParseHistoryValueCall
    \/ PackAssetRegistryEntryCall \/ UnpackAssetRegistryEntryCall
    \/ PackControllerOutpointCall \/ UnpackControllerOutpointCall
    \/ FormatControllerOutpointCall \/ ParseControllerStringCall

SpecCodec == Init /\ [][NextCodec]_vars

\* block ingestion with the propagator's call and the caller's write of the
\* batch as separate steps
NextBatch == AddTxBatch \/ ProcessBlock \/ WriteBatch \/ FailWrite

SpecBatch == Init /\ [][NextBatch]_vars

\* resolution over registries of any content: missing, normal and redirect
\* entries, cycles, and chains around the hop limit
NextRegistry == PutRegistryEntry \/ PutRedirectChain \/ ResolveSeededCall

SpecRegistry == Init /\ [][NextRegistry]_vars

(* ------------------------------------------------------------------ *)
(* Claims                                                               *)
(* ------------------------------------------------------------------ *)

\* the identities created so far and the addresses of the model
Identities == DOMAIN lineage
Addresses == {AddrA, AddrB}

\* the supply minted by all v10s of the chain that began at identity root
ChainSupply(root) ==
    LET chain == {d \in Identities : lineage[d].root = root}
    IN SumOver(chain, [d \in chain |-> lineage[d].supply])

Resolved(c) == ResolveCurrentController(ac, c, -1)

\* C1: after any sequence of connected blocks in which an asset is minted and
\* then re-issued by mint-more v10s (in separate blocks or several in one
\* block), the registry entry at ResolveCurrentController(original identity)
\* has totalSupply equal to the sum of Vout[1].ValueSat over the chain's v10s.
C1_SupplyIsSumOfMints ==
    \A c \in Identities :
        lineage[c].root = c =>
            /\ Resolved(c) \in DOMAIN ac
            /\ ac[Resolved(c)].TotalSupply = ChainSupply(c)

\* the records of the last block under controller c, as an iterator reports them
RecordsOf(c) ==
    LET recs == SelectSeq(last.assetTxs, LAMBDA e : e.controller = c)
    IN [i \in 1..Len(recs) |-> [Txid |-> recs[i].tx.Txid, Indexes |-> recs[i].indexes]]

\* those of them with a tagged output at address a
RecordsAt(c, a) ==
    LET recs == SelectSeq(last.assetTxs,
                          LAMBDA e : /\ e.controller = c
                                     /\ \E j \in 1..Len(e.indexes) :
                                           /\ e.indexes[j] < Len(e.tx.Vout)
                                           /\ e.tx.Vout[e.indexes[j] + 1].AddrDesc = a)
    IN [i \in 1..Len(recs) |-> [Txid |-> recs[i].tx.Txid, Indexes |-> recs[i].indexes]]

RECURSIVE IsSubSeq(_, _)
\* a is b with some elements left out
IsSubSeq(a, b) ==
    IF Len(a) = 0 THEN TRUE
    ELSE IF Len(b) = 0 THEN FALSE
    ELSE IF a[1] = b[1] THEN IsSubSeq(Tail(a), Tail(b))
    ELSE IsSubSeq(a, Tail(b))

BlockControllers == {last.assetTxs[i].controller : i \in 1..Len(last.assetTxs)}

\* C2: when two or more asset transactions of one block are recorded under the
\* same (scope, controller, height) history key, the committed value of the key
\* holds all their records in the order they were appended: the global key
\* reports exactly the block's records of the controller, a per-address key
\* reports in order every record with a tagged output at the address.
C2_SameKeyAppendsKept ==
    \A c \in BlockControllers :
        /\ Len(RecordsOf(c)) >= 2 =>
              /\ makeGlobalAssetTxKey(c, height) \in DOMAIN gt
              /\ ParseHistoryValue(gt[makeGlobalAssetTxKey(c, height)]) = RecordsOf(c)
        /\ \A a \in Addresses :
              Len(RecordsAt(c, a)) >= 2 =>
                 /\ makeAddrAssetTxKey(a, c, height) \in DOMAIN ax
                 /\ IsSubSeq(RecordsAt(c, a),
                             ParseHistoryValue(ax[makeAddrAssetTxKey(a, c, height)]))

\* C3: once a mint-more v10 has redirected identity O to N, every v11
\* processed afterwards (in phase 2 of the same block or in a later block)
\* whose asset inputs are tagged with O tags its filled outputs with N, the
\* identity O resolves to.
C3_TransferFollowsRedirect ==
    \A i \in 1..Len(last.assetTxs) :
        LET e == last.assetTxs[i] IN
        (/\ e.tx.Version = TxVersionAssetXfer
         /\ e.inputCtrl \in DOMAIN ac
         /\ ac[e.inputCtrl].IsRedirect)
        => e.controller = Resolved(e.inputCtrl)

\* the value of the live UTXOs of address a tagged with controller c that
\* are not controller coins
LiveSupplyValue(a, c) ==
    LET mine == {op \in DOMAIN utxos :
                    /\ utxos[op].AddrDesc = a
                    /\ utxos[op].Controller = c
                    /\ ~utxos[op].IsController}
    IN SumOver(mine, [op \in mine |-> utxos[op].ValueSat])

\* C4: after every committed block, for every (addrDesc, controller) pair with
\* a stored per-address asset balance, balanceSat is the sum of ValueSat over
\* the address's live UTXOs with that controller and isController = false.
C4_BalanceIsLiveSupply ==
    \A a \in Addresses, c \in Controllers :
        makeAddrAssetKey(a, c) \in DOMAIN aa =>
            aa[makeAddrAssetKey(a, c)].BalanceSat = LiveSupplyValue(a, c)

\* the v10 records of the last block
MintRecords ==
    {i \in 1..Len(last.assetTxs) : last.assetTxs[i].tx.Version = TxVersionAssetCreate}

IdentityOf(e) == packControllerOutpoint(e.tx.Txid, 0)

\* the identities whose controller coin (output 0 of their v10) e spends
SpentIdentities(e) ==
    {packControllerOutpoint(e.tx.Vin[j][1], 0) :
        j \in {k \in 1..Len(e.tx.Vin) :
                 /\ e.tx.Vin[k][2] = 0
                 /\ packControllerOutpoint(e.tx.Vin[k][1], 0) \in Identities}}

RedirectsTo(o, n) ==
    o \in DOMAIN ac /\ ac[o].IsRedirect /\ ac[o].CurrentController = n

IsNormal(n) == n \in DOMAIN ac /\ ~ac[n].IsRedirect

\* C5 as stated: when a v10 spends the controller coin of identity O and
\* creates N, after the commit the entry at O is a redirect to N, the entry at
\* N is normal and ResolveCurrentController(O) = N.
C5_MintMoreRedirects ==
    \A i \in MintRecords :
        \A o \in SpentIdentities(last.assetTxs[i]) :
            /\ RedirectsTo(o, IdentityOf(last.assetTxs[i]))
            /\ IsNormal(IdentityOf(last.assetTxs[i]))
            /\ Resolved(o) = IdentityOf(last.assetTxs[i])

\* the inputs of e that spend a controller coin the propagator can see: output
\* 0 of a v10 of the same block, or of an earlier block if it has an address
ControllerInputs(e) ==
    {k \in 1..Len(e.tx.Vin) :
        /\ e.tx.Vin[k][2] = 0
        /\ packControllerOutpoint(e.tx.Vin[k][1], 0) \in Identities
        /\ \/ lineage[packControllerOutpoint(e.tx.Vin[k][1], 0)].addressed
           \/ \E m \in 1..Len(last.txs) : last.txs[m].Txid = e.tx.Vin[k][1]}

\* the identity of the first of them, <<>> if there is none
SpentCoin(e) ==
    IF ControllerInputs(e) = {} THEN <<>>
    ELSE LET k == CHOOSE x \in ControllerInputs(e) :
                      \A y \in ControllerInputs(e) : x <= y
         IN packControllerOutpoint(e.tx.Vin[k][1], 0)

\* whether a later v10 of the same block re-issues the identity n again
ReissuedLater(i, n) ==
    \E j \in MintRecords : j > i /\ SpentCoin(last.assetTxs[j]) = n

\* C5 (amended): when a v10 creating N spends controller coins, O being the
\* identity of the first one among its inputs (a coin of the same block, or
\* one with an address), after the commit the entry at O is a redirect to N
\* and O resolves to what N resolves to; the entry at N is normal and O
\* resolves to N unless a later v10 of the same block re-issues N.
C5_MintMoreRedirectsUnlessReissued ==
    \A i \in MintRecords :
        LET o == SpentCoin(last.assetTxs[i])
            n == IdentityOf(last.assetTxs[i])
        IN o # <<>> =>
              /\ RedirectsTo(o, n)
              /\ n \in DOMAIN ac
              /\ Resolved(o) = Resolved(n)
              /\ ~ReissuedLater(i, n) => (IsNormal(n) /\ Resolved(o) = n)

\* C5 witness: a committed block with a mint-more whose new identity is normal
\* and one whose new identity was re-issued again in the same block
C5_Witness ==
    /\ \E i \in MintRecords :
          /\ SpentCoin(last.assetTxs[i]) # <<>>
          /\ ReissuedLater(i, IdentityOf(last.assetTxs[i]))
    /\ \E i \in MintRecords :
          /\ SpentCoin(last.assetTxs[i]) # <<>>
          /\ IsNormal(IdentityOf(last.assetTxs[i]))
          /\ Resolved(SpentCoin(last.assetTxs[i])) = IdentityOf(last.assetTxs[i])

\* C6: a store read that fails during processAssetsCoordinateType makes the
\* function return an error.
C6_ReadErrorsReturned ==
    (last.faults \cap last.reads # {}) => last.err

\* C7: a read error met by ResolveCurrentController while it follows a
\* redirect chain is propagated to the caller.
C7_ResolveReadErrorPropagated ==
    (ret.op = "ResolveCurrentController" /\ ret.readErr) => ret.err

HasBalances(a) == \E c \in Controllers : makeAddrAssetKey(a, c) \in DOMAIN aa

\* C8: for distinct address descriptors a1 and a2 that both have stored
\* balances, GetAddrDescAssets(a1) returns no entry that was stored for a2.
C8_PrefixIsolation ==
    (ret.op = "GetAddrDescAssets" /\ HasBalances(ret.addrDesc)) =>
        \A a2 \in Addresses \ {ret.addrDesc}, c \in Controllers :
            makeAddrAssetKey(a2, c) \in DOMAIN aa =>
                \A i \in 1..Len(ret.result) :
                    ret.addrDesc \o ret.result[i].Controller # makeAddrAssetKey(a2, c)

\* the live UTXOs tagged as the controller coin of identity c
ControllerCoins(c) ==
    {op \in DOMAIN utxos : utxos[op].Controller = c /\ utxos[op].IsController}

\* C9: after every committed block, at most one live UTXO tagged with a
\* controller has isController = true.
C9_AtMostOneControllerCoin ==
    \A op1, op2 \in DOMAIN utxos :
        (/\ utxos[op1].IsController
         /\ utxos[op2].IsController
         /\ utxos[op1].Controller = utxos[op2].Controller)
        => op1 = op2

\* C9 witness: after a re-issuance, the new identity has its one live
\* controller coin beside a live supply UTXO of the same controller
C9_Witness ==
    \E c \in Identities :
        /\ lineage[c].root # c
        /\ Cardinality(ControllerCoins(c)) = 1
        /\ \E op \in DOMAIN utxos : utxos[op].Controller = c /\ ~utxos[op].IsController

\* C10 as stated: in every reachable state each asset identity has exactly
\* one live UTXO with isController = true, and every other live UTXO of the
\* asset has isController = false.
C10_ExactlyOneControllerCoin ==
    \A c \in Identities :
        /\ Cardinality(ControllerCoins(c)) = 1
        /\ \A op \in DOMAIN utxos \ ControllerCoins(c) :
              utxos[op].Controller = c => ~utxos[op].IsController

\* unpackControllerOutpoint of an identity: its creation txid
TxidOf(c) == UnpackTxid(SubSeq(c, 1, PackedTxidLen))

\* C10 (amended): the live UTXOs with isController = true are exactly the
\* controller coins (creation txid, 0) of the identities that are unspent and
\* have an address, each tagged with its own identity: an identity has one
\* while its controller coin lives and none once it is spent, and every
\* other live UTXO tagged with the identity has isController = false.
C10_ControllerCoinIsOutputZero ==
    /\ \A c \in Identities :
          ControllerCoins(c) =
              {op \in DOMAIN utxos :
                  op = opKey(TxidOf(c), 0) /\ utxos[op].AddrDesc # <<>>}
    /\ \A op \in DOMAIN utxos :
          utxos[op].IsController => utxos[op].Controller \in Identities

\* C10 witness: one identity whose controller coin was spent while a supply
\* UTXO tagged with it lives, and one whose controller coin is live
C10_Witness ==
    /\ \E c \in Identities :
          /\ ControllerCoins(c) = {}
          /\ \E op \in DOMAIN utxos : utxos[op].Controller = c
    /\ \E c \in Identities : ControllerCoins(c) = {opKey(TxidOf(c), 0)}

\* C11: every live UTXO the propagator tagged with isController = true has a
\* non-empty controller that is the packed outpoint (its own txid, 0); a
\* transfer never produces the flag.
C11_ControllerCoinTaggedWithOwnOutpoint ==
    /\ \A op \in DOMAIN utxos :
          utxos[op].IsController =>
              /\ utxos[op].Controller # <<>>
              /\ utxos[op].Controller = packControllerOutpoint(op[1], 0)
    /\ \A i \in 1..Len(last.assetTxs) :
          last.assetTxs[i].tx.Version = TxVersionAssetXfer =>
              \A j \in 1..Len(last.assetTxs[i].indexes) :
                  LET op == opKey(last.assetTxs[i].tx.Txid, last.assetTxs[i].indexes[j])
                  IN op \in DOMAIN utxos => ~utxos[op].IsController

\* C11 witness: a block with a transfer has left a live output 0 tagged with
\* another transaction's identity, beside a live controller coin
C11_Witness ==
    /\ \E op \in DOMAIN utxos : utxos[op].IsController
    /\ \E i \in 1..Len(last.assetTxs) :
          /\ last.assetTxs[i].tx.Version = TxVersionAssetXfer
          /\ opKey(last.assetTxs[i].tx.Txid, 0) \in DOMAIN utxos
          /\ utxos[opKey(last.assetTxs[i].tx.Txid, 0)].Controller
                \notin {<<>>, packControllerOutpoint(last.assetTxs[i].tx.Txid, 0)}

\* the number of connected blocks in which address a appeared for controller c
BlocksAppeared(a, c) ==
    IF <<a, c>> \in DOMAIN appeared THEN appeared[<<a, c>>] ELSE 0

\* C12: after any sequence of connected blocks, the stored txCount of an
\* (addrDesc, controller) pair is the number of connected blocks in which the
\* address appeared in an asset-relevant input or a tagged output for that
\* controller.
C12_TxCountIsBlocksAppeared ==
    \A a \in Addresses, c \in Controllers :
        makeAddrAssetKey(a, c) \in DOMAIN aa =>
            aa[makeAddrAssetKey(a, c)].Txs = BlocksAppeared(a, c)

ResolveReturned == ret.op = "ResolveCurrentController"

\* C13: ResolveCurrentController terminates for every input and every
\* registry content, redirect cycles and chains longer than the limit
\* included, after at most MAX_REDIRECT_HOPS = 100 registry lookups.
C13_ResolveBoundedLookups ==
    ResolveReturned => ret.reads <= MaxRedirectHops

\* C13 witness: a resolution that used all the lookups, on a cycle and on a
\* chain longer than the limit
C13_Witness ==
    /\ ResolveReturned
    /\ ret.reads = MaxRedirectHops
    /\ \/ packControllerOutpoint(MaxRedirectHops + 2, 0) \in DOMAIN ac
       \/ \E b \in SeedControllers \ {ret.controller} :
             RedirectsTo(ret.controller, b) /\ RedirectsTo(b, ret.controller)

\* the registry holds the two-element cycle a -> b -> a
IsTwoCycle(a, b) == a # b /\ RedirectsTo(a, b) /\ RedirectsTo(b, a)

\* C14 as stated: with the cycle A -> B -> A in the registry,
\* ResolveCurrentController(A) returns A or B after at most 2 hops, without
\* looping further and without an error.
C14_CycleWithinTwoHops ==
    \A b \in SeedControllers :
        (ResolveReturned /\ IsTwoCycle(ret.controller, b)) =>
            /\ ret.result \in {ret.controller, b}
            /\ ret.reads <= 2
            /\ ~ret.err

\* C14 (amended): with the cycle A -> B -> A in the registry,
\* ResolveCurrentController(A) goes round the cycle until the hop limit: it
\* makes MAX_REDIRECT_HOPS lookups and returns A, the identity it stands on
\* after that even number of hops, without an error.
C14_CycleUntilHopLimit ==
    \A b \in SeedControllers :
        (ResolveReturned /\ IsTwoCycle(ret.controller, b)) =>
            /\ ret.result = ret.controller
            /\ ret.reads = MaxRedirectHops
            /\ ~ret.err

\* C14 witness: a resolution was made from inside a two-element cycle
C14_Witness ==
    \E b \in SeedControllers : ResolveReturned /\ IsTwoCycle(ret.controller, b)

\* C15: ResolveCurrentController(c) returns c when no registry entry exists
\* at c and the entry's currentController when the entry is normal; for an
\* acyclic chain c -> ... -> t of fewer than 100 redirects ending at a
\* normal entry it returns t's currentController.
C15_ResolveFollowsChain ==
    ResolveReturned =>
        /\ ret.controller \notin DOMAIN ac => ret.result = ret.controller
        /\ IsNormal(ret.controller) => ret.result = ac[ret.controller].CurrentController
        /\ (/\ Walk(ac, ret.controller, {}).kind = "normal"
            /\ Walk(ac, ret.controller, {}).redirects < MaxRedirectHops)
           => ret.result = ac[Walk(ac, ret.controller, {}).end].CurrentController

\* C15 witness: a resolution along the chain of 99 redirects, whose normal
\* entry is read by the last lookup
C15_Witness ==
    /\ ResolveReturned
    /\ Walk(ac, ret.controller, {}).kind = "normal"
    /\ Walk(ac, ret.controller, {}).redirects = MaxRedirectHops - 1
    /\ ret.result = packControllerOutpoint(MaxRedirectHops, 0)

HistoryReturned == ret.op \in {"GetAssetTransactions", "GetAddrDescAssetTransactions"}

\* the store and the key prefix of the scope the last history call read
ScopeStore == IF ret.op = "GetAssetTransactions" THEN gt ELSE ax
ScopeKey(h) ==
    IF ret.op = "GetAssetTransactions"
    THEN makeGlobalAssetTxKey(ret.controller, h)
    ELSE makeAddrAssetTxKey(ret.addrDesc, ret.controller, h)

RECURSIVE StoredFrom(_, _)
\* the records stored for the scope and controller at the heights from h
\* down to lo, newest first
StoredFrom(h, lo) ==
    IF h < lo THEN <<>>
    ELSE (IF ScopeKey(h) \in DOMAIN ScopeStore
          THEN LET recs == ParseHistoryValue(ScopeStore[ScopeKey(h)])
               IN [i \in 1..Len(recs) |->
                     [Txid |-> recs[i].Txid, Height |-> h, Indexes |-> recs[i].Indexes]]
          ELSE <<>>)
         \o StoredFrom(h - 1, lo)

LeftOutOfRange ==
    /\ HistoryReturned
    /\ ret.fn.kind = "nil"
    /\ Len(ret.calls) > 0
    /\ \E h \in HistoryHeights :
          /\ h < ret.lower \/ h > ret.higher
          /\ ScopeKey(h) \in DOMAIN ScopeStore

Reachable == StoredFrom(ret.higher, ret.lower)

\* C17: when the callback returns the StopIteration sentinel, the iterator
\* makes no further invocation and returns nil; when it returns any other
\* error, the iterator stops and returns that error.
C17_CallbackStopsIteration ==
    (HistoryReturned /\ ret.fn.kind # "nil" /\ ret.fn.at <= Len(Reachable)) =>
        /\ ret.calls = SubSeq(Reachable, 1, ret.fn.at)
        /\ ret.fn.kind = "stop" => ret.err = "nil"
        /\ ret.fn.kind = "error" => ret.err = "error"

\* C17 witness: a callback stopped an iterator that had more records to
\* report
C17_Witness ==
    /\ HistoryReturned
    /\ ret.fn.kind = "stop"
    /\ ret.fn.at < Len(Reachable)

\* every put of the staged batch w is what the store map m holds at its key
Visible(w, m) == \A k \in DOMAIN w : k \in DOMAIN m /\ m[k] = w[k]

\* C18: processAssetsCoordinateType never writes to the committed store
\* itself: while a block's writes are staged in the caller's batch the
\* store is as it was before the call, and after the caller's write either
\* all of the block's registry, balance and history writes are visible or
\* none is.
C18_StagedUntilCommit ==
    /\ batch.phase = "staged" => Store = batch.before
    /\ batch.phase = "written" =>
          /\ Visible(StagedWrites(batch.r).ac, ac)
          /\ Visible(StagedWrites(batch.r).aa, aa)
          /\ Visible(StagedWrites(batch.r).gt, gt)
          /\ Visible(StagedWrites(batch.r).ax, ax)
    /\ batch.phase = "failed" => Store = batch.before

\* C18 witness: a block with a re-issuance and its registry, balance and
\* history puts is staged on a store that holds an earlier block
C18_Witness ==
    /\ batch.phase = "staged"
    /\ height > 0
    /\ \E k \in DOMAIN StagedWrites(batch.r).ac : StagedWrites(batch.r).ac[k].IsRedirect
    /\ StagedWrites(batch.r).aa # EmptyMap
    /\ StagedWrites(batch.r).gt # EmptyMap
    /\ StagedWrites(batch.r).ax # EmptyMap

\* the per-address balance records stored for address a: controller and
\* balance as they were written
StoredAssets(a) ==
    {[Controller |-> c, Balance |-> aa[makeAddrAssetKey(a, c)]] :
        c \in {x \in Controllers : makeAddrAssetKey(a, x) \in DOMAIN aa}}

\* C19: GetAddrDescAssets(addrDesc) returns one (controller, balance) entry
\* for every per-address balance record stored for that address, with the
\* stored controller and balance, and no other entry: two addresses that
\* hold the same asset each get exactly one entry, with their own balance.
C19_OneEntryPerStoredRecord ==
    ret.op = "GetAddrDescAssets" =>
        /\ {ret.result[i] : i \in 1..Len(ret.result)} = StoredAssets(ret.addrDesc)
        /\ Len(ret.result) = Cardinality(StoredAssets(ret.addrDesc))

\* the part of C19 that is about the records of the address itself: each
\* has its entry
C19_EveryStoredRecordReturned ==
    ret.op = "GetAddrDescAssets" =>
        StoredAssets(ret.addrDesc) \subseteq {ret.result[i] : i \in 1..Len(ret.result)}

\* h1 < h2 on uint32 values given by their halves
Less32(h1, h2) == h1.hi < h2.hi \/ (h1.hi = h2.hi /\ h1.lo < h2.lo)

\* C20: for all 32-bit heights h1 < h2, packDescHeight(h1) is greater than
\* packDescHeight(h2) in byte order; packDescHeight(h) is exactly 4 bytes,
\* each a byte, and unpackDescHeight(packDescHeight(h)) = h.
C20_DescHeightOrderAndRoundTrip ==
    /\ ret.op = "packDescHeight" =>
          /\ Len(ret.b1) = 4
          /\ \A i \in 1..4 : ret.b1[i] \in 0..255
          /\ Less32(ret.h1, ret.h2) => BytesLess(ret.b2, ret.b1)
    /\ ret.op = "unpackDescHeight" => ret.result = ret.h

\* C20 witness: two heights on either side of a carry into the upper half
\* are packed, and the lower one has the greater encoding
C20_Witness ==
    /\ ret.op = "packDescHeight"
    /\ ret.h1 = [hi |-> 0, lo |-> 65535]
    /\ ret.h2 = [hi |-> 1, lo |-> 0]
    /\ BytesLess(ret.b2, ret.b1)

\* C21: a history value built by concatenating several packAssetTxEntry
\* records is parsed by the history iterators back into exactly the same
\* sequence of (txid, indexes) records.
C21_ConcatenatedEntriesParseBack ==
    ret.op = "ParseHistoryValue" => ret.parsed = ret.records

\* C21 witness: the value of the entries [0, 1] and [5], the second with a
\* txid byte that has the continuation bit set, has been parsed
C21_Witness ==
    /\ ret.op = "ParseHistoryValue"
    /\ Len(ret.records) = 2
    /\ ret.records[1].Indexes = <<0, 1>>
    /\ ret.records[2].Indexes = <<5>>
    /\ ret.records[2].Txid = 200
    /\ Len(ret.parsed) = 2

\* C22: for every registry entry e, unpackAssetRegistryEntry of
\* packAssetRegistryEntry(e) equals e, and the first byte of the packed
\* value is 1 if e.IsRedirect and 0 otherwise.
C22_RegistryEntryRoundTrip ==
    /\ ret.op = "packAssetRegistryEntry" =>
          ret.packed[1] = (IF ret.entry.IsRedirect THEN 1 ELSE 0)
    /\ ret.op = "unpackAssetRegistryEntry" => ret.result = ret.entry

\* C22 witness: a normal entry with ticker, headline, a two-byte precision
\* and a four-byte supply has been packed and unpacked
C22_Witness ==
    /\ ret.op = "unpackAssetRegistryEntry"
    /\ ~ret.entry.IsRedirect
    /\ ret.entry.Ticker = <<71, 200>>
    /\ ret.entry.Headline = <<72>>
    /\ ret.entry.Precision = 128
    /\ ret.entry.AssetType = 1
    /\ ret.entry.TotalSupply = 100000000
    /\ ret.result.TotalSupply = 100000000

\* a redirect has been packed and unpacked
C22_RedirectUnpacked ==
    /\ ret.op = "unpackAssetRegistryEntry"
    /\ ret.entry.IsRedirect
    /\ ret.result.IsRedirect

\* C23: for every valid txid and every vout, unpackControllerOutpoint of
\* packControllerOutpoint(txid, vout) is (txid, vout), and
\* ParseControllerString(FormatControllerOutpoint(c)) = c for every packed
\* controller c that packControllerOutpoint produced.
C23_ControllerOutpointRoundTrips ==
    /\ ret.op = "unpackControllerOutpoint" => ret.result = <<ret.txid, ret.vout>>
    /\ ret.op = "ParseControllerString" => ret.result = ret.packed

\* C23 witness: a controller whose vout has ten decimal digits and five
\* varuint bytes, and whose txid has letters as hex digits, has been
\* formatted and parsed
C23_Witness ==
    /\ ret.op = "ParseControllerString"
    /\ ret.packed = packControllerOutpoint(172, 2147483647)
    /\ Len(ret.str) = 13

\* a controller with a two-byte vout has been unpacked
C23_Unpacked ==
    /\ ret.op = "unpackControllerOutpoint"
    /\ ret.vout = 65535
    /\ ret.result[2] = 65535

RECURSIVE SumThrough(_, _)
\* the sum of the values of outputs 0..i of a transaction's outputs
SumThrough(vout, i) ==
    IF i < 0 THEN 0 ELSE vout[i + 1].ValueSat + SumThrough(vout, i - 1)

\* the last index the fill rule tags: the first index whose prefix sum
\* reaches or exceeds total, the last output when none does
LastFilled(vout, total) ==
    LET reach == {i \in 0..(Len(vout) - 1) : SumThrough(vout, i) >= total}
    IN IF reach = {} THEN Len(vout) - 1
       ELSE CHOOSE i \in reach : \A j \in reach : i <= j

\* the transfers of the last block that filled outputs
Transfers ==
    {i \in 1..Len(last.assetTxs) : last.assetTxs[i].tx.Version = TxVersionAssetXfer}

\* C24: for a v11 with assetTotal > 0 the outputs are tagged in index order
\* up to and including the first index whose prefix sum of Vout values
\* reaches or exceeds assetTotal, all outputs when none does, and no later
\* output is tagged: the recorded indexes are 0..last, and every output of
\* the transaction that is a live UTXO with an address carries the asset
\* exactly when its index is among them.
C24_FillStopsAtFirstIndexReachingTotal ==
    \A n \in Transfers :
        LET e == last.assetTxs[n]
            lastIdx == LastFilled(e.tx.Vout, e.assetTotal)
        IN /\ e.assetTotal > 0
           /\ e.indexes = [k \in 1..(lastIdx + 1) |-> k - 1]
           /\ \A i \in 0..(Len(e.tx.Vout) - 1) :
                 (opKey(e.tx.Txid, i) \in DOMAIN utxos
                  /\ e.tx.Vout[i + 1].AddrDesc # <<>>) =>
                    /\ (i <= lastIdx) =>
                          /\ utxos[opKey(e.tx.Txid, i)].Controller = e.controller
                          /\ ~utxos[opKey(e.tx.Txid, i)].IsController
                    /\ (i > lastIdx) =>
                          utxos[opKey(e.tx.Txid, i)].Controller = <<>>

\* C24 witness: a transfer with three outputs reached its total at the
\* second one, which is tagged, and left the third untagged
C24_Witness ==
    \E n \in Transfers :
        LET e == last.assetTxs[n] IN
        /\ Len(e.tx.Vout) = 3
        /\ e.indexes = <<0, 1>>
        /\ opKey(e.tx.Txid, 1) \in DOMAIN utxos
        /\ opKey(e.tx.Txid, 2) \in DOMAIN utxos
        /\ utxos[opKey(e.tx.Txid, 1)].Controller = e.controller
        /\ utxos[opKey(e.tx.Txid, 2)].Controller = <<>>

\* a transfer whose outputs never reach the total tagged all three
C24_AllTagged ==
    \E n \in Transfers :
        LET e == last.assetTxs[n] IN
        /\ e.indexes = <<0, 1, 2>>
        /\ SumThrough(e.tx.Vout, 2) < e.assetTotal

\* the ticker, headline, precision and assetType of a registry entry
Metadata(entry) ==
    [Ticker |-> entry.Ticker, Headline |-> entry.Headline,
     Precision |-> entry.Precision, AssetType |-> entry.AssetType]

\* the txid of the first creation the identity n descends from
RootTxid(n) == UnpackTxid(SubSeq(lineage[n].root, 1, PackedTxidLen))

\* C25: after a mint-more v10 the new normal entry carries the ticker,
\* headline, precision and assetType of the entry it supersedes (those of
\* the first creation of the asset) and not the metadata of the mint-more
\* transaction; the CoinSpecificData of a v10 is applied only when it spends
\* no controller coin.
C25_MintMoreCarriesMetadata ==
    \A i \in MintRecords :
        LET e == last.assetTxs[i]
            n == IdentityOf(e)
        IN IsNormal(n) =>
              Metadata(ac[n]) =
                 IF SpentIdentities(e) # {}
                 THEN CoinSpecificData(RootTxid(n))
                 ELSE CoinSpecificData(e.tx.Txid)

\* the tag a v10 or v11 of the last block gave the outpoint op, NilInfo if
\* none did: outputs 0 and 1 of a v10 with two outputs, the filled outputs
\* of a v11
InBlockTag(op) ==
    IF \E m \in 1..Len(last.txs) :
          /\ last.txs[m].Txid = op[1]
          /\ last.txs[m].Version = TxVersionAssetCreate
          /\ Len(last.txs[m].Vout) >= 2
          /\ op[2] \in {0, 1}
    THEN [Controller |-> packControllerOutpoint(op[1], 0), IsController |-> op[2] = 0]
    ELSE IF \E n \in Transfers :
               /\ last.assetTxs[n].tx.Txid = op[1]
               /\ op[2] \in Range(last.assetTxs[n].indexes)
         THEN LET n == CHOOSE x \in Transfers :
                          /\ last.assetTxs[x].tx.Txid = op[1]
                          /\ op[2] \in Range(last.assetTxs[x].indexes)
              IN [Controller |-> last.assetTxs[n].controller, IsController |-> FALSE]
         ELSE NilInfo

\* the v11s of the last block
TransferTxs == {m \in 1..Len(last.txs) : last.txs[m].Version = TxVersionAssetXfer}

\* C26: when a v11 spends an outpoint that a v10 or v11 processed earlier
\* in the same block has tagged, the (controller, isController) of the input
\* is the one in the in-flight controller map and lookupSpentController is
\* not invoked for that input.
C26_SameBlockTagFromMap ==
    \A m \in TransferTxs :
        \A k \in 1..Len(last.txs[m].Vin) :
            LET op == last.txs[m].Vin[k]
                log == {g \in last.inputLog : g.tx = last.txs[m].Txid /\ g.op = op}
            IN InBlockTag(op) # NilInfo =>
                  /\ log # {}
                  /\ \A g \in log : ~g.lookedUp /\ g.ci = InBlockTag(op)

\* C26 witness: a v11 spent an output that a v11 of the same block had
\* filled and one that a v10 of the same block had tagged as its controller
\* coin, both found in the map
C26_Witness ==
    \E m \in TransferTxs :
        /\ \E k \in 1..Len(last.txs[m].Vin) :
              /\ InBlockTag(last.txs[m].Vin[k]) # NilInfo
              /\ InBlockTag(last.txs[m].Vin[k]).IsController
        /\ \E k \in 1..Len(last.txs[m].Vin) :
              /\ InBlockTag(last.txs[m].Vin[k]) # NilInfo
              /\ \E n \in Transfers :
                    last.assetTxs[n].tx.Txid = last.txs[m].Vin[k][1]
        /\ \A g \in last.inputLog : g.tx = last.txs[m].Txid => ~g.lookedUp

\* a v11 spent an output tagged in an earlier block: the input went to the
\* store
C26_LookedUp ==
    \E g \in last.inputLog : g.lookedUp /\ g.ci # NilInfo

\* the input pass of the v11 with txid t, as logged
InputsOf(t) == {g \in last.inputLog : g.tx = t}

\* the summed value of the inputs of t that carry an asset and are not
\* controller coins
AssetTotalOf(t) ==
    LET S == {g \in InputsOf(t) : g.ci.Controller # <<>> /\ ~g.ci.IsController}
    IN SumOver({g.op : g \in S},
               [op \in {g.op : g \in S} |->
                   (CHOOSE g \in S : g.op = op).value])

\* no input of t carries a controller, or the asset inputs sum to 0
CarriesNoTransfer(t) ==
    \/ \A g \in InputsOf(t) : g.ci.Controller = <<>>
    \/ AssetTotalOf(t) = 0

\* the transactions recorded in the history values written at the height of
\* the last block
HistoryTxidsOf(store) ==
    UNION {{rec.Txid : rec \in Range(ParseHistoryValue(store[k]))} :
           k \in {x \in DOMAIN store :
                    unpackDescHeight(SubSeq(x, Len(x) - 3, Len(x))) = height}}

\* C27: a v11 for which no input controller is found, or whose summed
\* non-controller asset input value is 0, tags no output, adds no in-flight
\* map entry, appends no history record, and does not make block processing
\* return an error.
C27_EmptyTransferLeavesNoTrace ==
    \A m \in TransferTxs :
        LET tx == last.txs[m] IN
        CarriesNoTransfer(tx.Txid) =>
            /\ \A i \in 0..(Len(tx.Vout) - 1) :
                  /\ opKey(tx.Txid, i) \notin last.ctrlKeys
                  /\ opKey(tx.Txid, i) \in DOMAIN utxos =>
                        utxos[opKey(tx.Txid, i)].Controller = <<>>
            /\ \A n \in 1..Len(last.assetTxs) : last.assetTxs[n].tx.Txid # tx.Txid
            /\ tx.Txid \notin HistoryTxidsOf(gt)
            /\ tx.Txid \notin HistoryTxidsOf(ax)
            /\ ~last.err

\* C27 witness: a v11 whose only asset input is a controller coin shared a
\* block with a transaction that was recorded in the history
C27_Witness ==
    /\ \E m \in TransferTxs :
          /\ InputsOf(last.txs[m].Txid) # {}
          /\ \A g \in InputsOf(last.txs[m].Txid) : g.ci.IsController
          /\ opKey(last.txs[m].Txid, 0) \in DOMAIN utxos
    /\ HistoryTxidsOf(gt) # {}

\* the v10s of the last block with fewer than two outputs
ShortMints ==
    {m \in 1..Len(last.txs) :
        /\ last.txs[m].Version = TxVersionAssetCreate
        /\ Len(last.txs[m].Vout) < 2}

\* C28: a version-10 transaction with fewer than 2 outputs is skipped in
\* phase 1: it tags no UTXO, adds no in-flight map entry, stages no registry
\* entry and no redirect (even if it spends a controller coin), records no
\* history, and block processing continues without error.
C28_ShortMintSkipped ==
    \A m \in ShortMints :
        LET tx == last.txs[m]
            me == packControllerOutpoint(tx.Txid, 0)
        IN /\ \A i \in 0..(Len(tx.Vout) - 1) :
                 /\ opKey(tx.Txid, i) \notin last.ctrlKeys
                 /\ opKey(tx.Txid, i) \in DOMAIN utxos =>
                       utxos[opKey(tx.Txid, i)].Controller = <<>>
           /\ me \notin DOMAIN ac
           /\ \A o \in DOMAIN ac : ac[o].CurrentController # me
           /\ \A n \in 1..Len(last.assetTxs) : last.assetTxs[n].tx.Txid # tx.Txid
           /\ tx.Txid \notin HistoryTxidsOf(gt)
           /\ tx.Txid \notin HistoryTxidsOf(ax)
           /\ ~last.err

\* C28 witness: a v10 with one output spent the controller coin of an
\* identity whose entry is still normal, in a block that also recorded
\* another transaction
C28_Witness ==
    /\ \E m \in ShortMints :
          /\ opKey(last.txs[m].Txid, 0) \in DOMAIN utxos
          /\ \E k \in 1..Len(last.txs[m].Vin) :
                /\ last.txs[m].Vin[k][2] = 0
                /\ IsNormal(packControllerOutpoint(last.txs[m].Vin[k][1], 0))
    /\ last.assetTxs # <<>>

\* the pending block has transactions and none of version 10 or 11
OpaqueBlock ==
    /\ pending # <<>>
    /\ \A i \in 1..Len(pending) :
          pending[i].Version \notin {TxVersionAssetCreate, TxVersionAssetXfer}

\* the controller and isController fields of a UTXO
TagOf(u) == [Controller |-> u.Controller, IsController |-> u.IsController]

\* C29: for a block that contains only transactions whose version is
\* neither 10 nor 11 (9 and 12 among them), processAssetsCoordinateType
\* stages no write in the batch and leaves the controller and isController
\* fields of every UTXO as they were: those of the committed UTXOs as
\* stored, those of the block's outputs empty.
C29_OtherVersionsStageNothing ==
    (batch.phase = "staged" /\ OpaqueBlock) =>
        /\ StagedWrites(batch.r).ac = EmptyMap
        /\ StagedWrites(batch.r).aa = EmptyMap
        /\ StagedWrites(batch.r).gt = EmptyMap
        /\ StagedWrites(batch.r).ax = EmptyMap
        /\ \A op \in DOMAIN batch.r.bal.u :
              TagOf(batch.r.bal.u[op]) =
                 IF op \in DOMAIN utxos THEN TagOf(utxos[op]) ELSE NilInfo

\* C29 witness: a block of a preconfirmation and a peg-in transaction, one
\* of which spends a tagged UTXO, has been processed on a store that holds
\* tagged UTXOs
C29_Witness ==
    /\ batch.phase = "staged"
    /\ OpaqueBlock
    /\ \E i \in 1..Len(pending) : pending[i].Version = TxVersionPreconf
    /\ \E i \in 1..Len(pending) :
          /\ pending[i].Version = TxVersionPegin
          /\ \E k \in 1..Len(pending[i].Vin) :
                /\ pending[i].Vin[k] \in DOMAIN utxos
                /\ utxos[pending[i].Vin[k]].Controller # <<>>
    /\ \E op \in DOMAIN utxos : utxos[op].Controller # <<>>

\* no redirect of the registry map m points to the key it is stored at
NoSelfRedirect(m) ==
    \A k \in DOMAIN m : m[k].IsRedirect => m[k].CurrentController # k

\* C30: the propagator never stages a redirect entry whose key equals its
\* target, so no redirect of the staged batch and no committed redirect
\* points to itself.
C30_NoRedirectToItself ==
    /\ NoSelfRedirect(ac)
    /\ batch.phase = "staged" => NoSelfRedirect(StagedWrites(batch.r).ac)

\* C30 witness: a mint-more block has been written; the store holds the
\* redirect it staged
C30_Witness ==
    /\ batch.phase = "written"
    /\ \E k \in DOMAIN batch.r.wbAc :
          /\ batch.r.wbAc[k].IsRedirect
          /\ k \in DOMAIN ac
          /\ ac[k] = batch.r.wbAc[k]

\* the history records of the staged block that touch the pair p: records
\* of its controller with its address among their tagged outputs or inputs
TouchingRecords(p) ==
    {i \in 1..Len(batch.r.assetTxs) :
        /\ batch.r.assetTxs[i].controller = p[2]
        /\ p[1] \in HistoryAddrs(batch.r.bal, batch.r.assetTxs[i])}

\* C31: for each (addrDesc, controller) pair of a block's affected set one
\* balance put is staged, at the pair's key and at no other: its txCount is
\* the stored txCount plus 1 (1 when no record is stored), however many
\* transactions of the block touched the pair, and its sentSat is that of
\* the stored record (0 when there is none).
C31_OneBalancePutPerAffectedPair ==
    batch.phase = "staged" =>
        /\ DOMAIN batch.r.wbAa =
              {makeAddrAssetKey(p[1], p[2]) : p \in batch.r.affected}
        /\ \A p, q \in batch.r.affected :
              makeAddrAssetKey(p[1], p[2]) = makeAddrAssetKey(q[1], q[2]) => p = q
        /\ \A p \in batch.r.affected :
              LET key == makeAddrAssetKey(p[1], p[2])
                  put == batch.r.wbAa[key]
              IN IF key \in DOMAIN aa
                 THEN put.Txs = aa[key].Txs + 1 /\ put.SentSat = aa[key].SentSat
                 ELSE put.Txs = 1 /\ put.SentSat = 0

\* C31 witness: a pair with a stored record is touched by two transactions
\* of the staged block, and another pair of the block has no stored record
C31_Witness ==
    /\ batch.phase = "staged"
    /\ \E p \in batch.r.affected :
          /\ makeAddrAssetKey(p[1], p[2]) \in DOMAIN aa
          /\ Cardinality(TouchingRecords(p)) >= 2
          /\ batch.r.wbAa[makeAddrAssetKey(p[1], p[2])].Txs >= 2
    /\ \E q \in batch.r.affected : makeAddrAssetKey(q[1], q[2]) \notin DOMAIN aa

\* C32: once a live UTXO has a non-empty controller tag, connecting a block
\* neither clears nor changes the tag while the UTXO stays unspent: a tagged
\* UTXO is either spent by the block or keeps its controller and its
\* isController flag.
C32_TagKeptUntilSpent ==
    [][\A op \in DOMAIN utxos :
          (utxos[op].Controller # <<>> /\ op \in DOMAIN utxos')
              => TagOf(utxos'[op]) = TagOf(utxos[op])]_vars

\* C32 witness: a tagged UTXO of an earlier block is live after a later
\* block with asset transactions has been connected
C32_Witness ==
    /\ last.assetTxs # <<>>
    /\ \E op \in DOMAIN utxos :
          /\ utxos[op].Controller # <<>>
          /\ utxos[op].Height < height

\* the positions of the v11s of the last block that spend only outputs of
\* v10s standing later in the block
ForwardTransfers ==
    {i \in 1..Len(last.txs) :
        /\ last.txs[i].Version = TxVersionAssetXfer
        /\ last.txs[i].Vin # <<>>
        /\ \A k \in 1..Len(last.txs[i].Vin) :
              \E j \in (i + 1)..Len(last.txs) :
                 /\ last.txs[j].Version = TxVersionAssetCreate
                 /\ Len(last.txs[j].Vout) >= 2
                 /\ last.txs[i].Vin[k][1] = last.txs[j].Txid
                 /\ last.txs[i].Vin[k][2] \in {0, 1}}

\* C33: a v11 that stands in its block before the v10 creating the asset
\* outputs it spends is ignored: none of its outputs is tagged and the
\* block has no history record for it.
C33_EarlierTransferIgnored ==
    \A i \in ForwardTransfers :
        /\ \A n \in 1..Len(last.assetTxs) :
              last.assetTxs[n].tx.Txid # last.txs[i].Txid
        /\ \A op \in DOMAIN utxos :
              op[1] = last.txs[i].Txid => utxos[op].Controller = <<>>

\* the number of appendToCF calls of the staged block with this key and value
AppendCount(key, val) ==
    Cardinality({n \in 1..Len(batch.r.appendCalls) :
                    batch.r.appendCalls[n] = [key |-> key, val |-> val]})

\* the distinct non-empty addresses of a history record
RecordAddrs(ate) == HistoryAddrs(batch.r.bal, ate) \ {<<>>}

\* C34: each history record of a block is appended once under the global
\* key of its controller and once under the per-address key of each distinct
\* non-empty address among its tagged outputs and its inputs, also when an
\* address occurs in several of them; no other append is made.
C34_OneAppendPerScope ==
    batch.phase = "staged" =>
        /\ \A n \in 1..Len(batch.r.assetTxs) :
              LET ate == batch.r.assetTxs[n]
                  val == packAssetTxEntry(PackTxid(ate.tx.Txid), ate.indexes)
              IN /\ AppendCount(makeGlobalAssetTxKey(ate.controller, height + 1),
                                val) = 1
                 /\ \A ad \in RecordAddrs(ate) :
                       AppendCount(makeAddrAssetTxKey(ad, ate.controller,
                                                      height + 1), val) = 1
        /\ Len(batch.r.appendCalls) =
              SumOver(1..Len(batch.r.assetTxs),
                      [n \in 1..Len(batch.r.assetTxs) |->
                          1 + Cardinality(RecordAddrs(batch.r.assetTxs[n]))])

\* C34 witness: a record of the staged block has an address that occurs in
\* two of its tagged outputs and inputs
C34_Witness ==
    /\ batch.phase = "staged"
    /\ \E n \in 1..Len(batch.r.assetTxs) :
          LET cands == HistoryCandidates(batch.r.bal, batch.r.assetTxs[n])
          IN \E i, j \in 1..Len(cands) :
                i < j /\ cands[i] # <<>> /\ cands[i] = cands[j]

\* the (txid, height) pairs a history iterator reports over all heights
Reported(store, prefix) ==
    LET recs == IterateHistory(store, prefix, 0, height)
    IN {<<recs[i].Txid, recs[i].Height>> : i \in 1..Len(recs)}

\* C35: in every committed state every transaction that
\* GetAddrDescAssetTransactions(addr, controller) reports at a height is
\* reported by GetAssetTransactions(controller) at that height: the
\* per-address history of an asset is part of its global history.
C35_AddressHistoryInGlobalHistory ==
    \A a \in Addresses, c \in Identities :
        Reported(ax, a \o c) \subseteq Reported(gt, c)

\* the value in circulation of the asset at identity c: that of the live
\* UTXOs with isController = false whose controller resolves to c
Circulation(c) ==
    LET mine == {op \in DOMAIN utxos :
                    /\ utxos[op].Controller # <<>>
                    /\ ~utxos[op].IsController
                    /\ Resolved(utxos[op].Controller) = c}
    IN SumOver(mine, [op \in mine |-> utxos[op].ValueSat])

\* C36 as claimed: after every committed block the value in circulation of
\* each asset does not exceed the totalSupply of its registry entry.
C36_CirculationWithinSupply ==
    \A c \in DOMAIN ac :
        ~ac[c].IsRedirect => Circulation(c) <= ac[c].TotalSupply

\* the value of the outputs a history record lists
TaggedValue(e) == SumThrough(e.tx.Vout, Len(e.indexes) - 1)

\* C36: connecting a v11 can put more of an asset into circulation than its
\* inputs held: it tags outputs in index order until their running sum
\* reaches assetTotal, so the value of its tagged outputs without the last
\* one is below its input asset value, and the value it tags exceeds its
\* input asset value by less than the value of the last tagged output.
C36_TransferTagsUpToLastOutput ==
    \A n \in Transfers :
        LET e == last.assetTxs[n] IN
        /\ e.indexes # <<>>
        /\ SumThrough(e.tx.Vout, Len(e.indexes) - 2) < e.assetTotal
        /\ TaggedValue(e) - e.assetTotal
              < e.tx.Vout[Len(e.indexes)].ValueSat

\* C36 witness: in a chain without re-issuance a connected v11 tagged
\* outputs worth more than its input asset value, they are live with the
\* tag, and the asset's circulation is above its totalSupply
C36_Witness ==
    \E n \in Transfers :
        LET e == last.assetTxs[n] IN
        /\ \A c \in DOMAIN ac : ~ac[c].IsRedirect
        /\ TaggedValue(e) > e.assetTotal
        /\ e.controller \in DOMAIN ac
        /\ Circulation(e.controller) > ac[e.controller].TotalSupply
        /\ \A k \in 1..Len(e.indexes) :
              /\ opKey(e.tx.Txid, e.indexes[k]) \in DOMAIN utxos
              /\ utxos[opKey(e.tx.Txid, e.indexes[k])].Controller = e.controller

\* the history records of the staged block, i.e. its transactions that were
\* not skipped, that have the address of the pair p among their tagged
\* outputs and inputs and its controller as the identity they tagged with
\* or found on their inputs
ContributingRecords(p) ==
    {n \in 1..Len(batch.r.assetTxs) :
        /\ p[1] \in HistoryAddrs(batch.r.bal, batch.r.assetTxs[n])
        /\ p[2] \in {batch.r.assetTxs[n].controller,
                     batch.r.assetTxs[n].inputCtrl}}

\* C37: a v11 that is skipped because no controller was found or its
\* assetTotal is 0 causes no per-address balance put and no change of a
\* stored txCount: every balance put of a block is for a pair of a
\* transaction that was not skipped.
C37_SkippedTransferStagesNoBalance ==
    batch.phase = "staged" =>
        \A p \in batch.r.affected : ContributingRecords(p) # {}

\* C38: in every committed registry state produced by connecting blocks,
\* each redirect entry's currentController names an identity that has a
\* registry entry, and following the redirects from any registered identity
\* ends at a normal entry whose currentController is its own key.
C38_RedirectsEndAtNormalEntry ==
    \A k \in DOMAIN ac :
        /\ ac[k].IsRedirect => ac[k].CurrentController \in DOMAIN ac
        /\ Walk(ac, k, {}).kind = "normal"
        /\ ac[Walk(ac, k, {}).end].CurrentController = Walk(ac, k, {}).end

\* C38 witness: the committed registry holds a chain of two redirects
C38_Witness ==
    \E k \in DOMAIN ac : Walk(ac, k, {}).redirects = 2

\* C39: a ResolveCurrentController(c) call whose point reads interleave
\* with atomic block commits returns an identity that was the terminal
\* identity of c's redirect chain in some committed state between the
\* call's start and its return.
C39_ResolveReturnsSomeTerminal ==
    (ret.op = "ResolveCurrentController" /\ "terminals" \in DOMAIN ret)
        => ret.result \in ret.terminals

\* C39 witness: a call that made two reads returned after the terminal
\* identity of its argument had changed during the call
C39_Witness ==
    /\ ret.op = "ResolveCurrentController"
    /\ "terminals" \in DOMAIN ret
    /\ Cardinality(ret.terminals) >= 2
    /\ ret.reads >= 2

\* C40: once the registry entry at an identity is a redirect in a committed
\* state, every later committed state has an entry at that identity and it
\* is a redirect to the same target: entries are never deleted and a
\* redirect is never replaced by a normal entry or by another redirect.
C40_RedirectsNeverChange ==
    [][\A k \in DOMAIN ac :
          /\ k \in DOMAIN ac'
          /\ ac[k].IsRedirect =>
                /\ ac'[k].IsRedirect
                /\ ac'[k].CurrentController = ac[k].CurrentController]_vars

\* C40 witness: a redirect committed by one block is in the registry after
\* a later block that committed another redirect
C40_Witness ==
    \E k, m \in DOMAIN ac :
        /\ k # m
        /\ ac[k].IsRedirect
        /\ ac[m].IsRedirect
        /\ ac[k].CurrentController = m
        /\ lineage[k].root = k
        /\ height >= 3

====
